---- MODULE Spec2Model ----
(***************************************************************************)
(* Instruction processing of the pinocchio native AMM: Initialize,         *)
(* Deposit, Withdraw and Swap over one pool, its two vaults, its LP mint   *)
(* and one user, with the external ledger (account creation, token         *)
(* transfer / mint / burn, clock) modelled at its interface.               *)
(***************************************************************************)
EXTENDS Integers, Sequences, FiniteSets, TLC

(***************************************************************************)
(* Bounds of the model.                                                    *)
(***************************************************************************)
UserX0 == 3
UserY0 == 2
AltX0 == 1
MaxSupply == 2
MaxAmount == 2
MaxClock == 2
MaxStateValue == 4
QuoteMaxReserve == 6
QuoteMaxSupply == 4

(***************************************************************************)
(* Program constants.                                                      *)
(***************************************************************************)
PROGRAM_ID == 1
SYSTEM_PROGRAM_ID == 2
TOKEN_PROGRAM_ID == 3
ZERO_ADDRESS == 0

CONFIG_LEN == 108
TOKEN_ACCOUNT_LEN == 165
MINT_LEN == 82
DEPOSIT_DATA_LEN == 32
WITHDRAW_DATA_LEN == 32
SWAP_DATA_LEN == 25
INITIALIZE_DATA_LEN_WITH_AUTHORITY == 108
INITIALIZE_DATA_LEN == 76
MINT_SPACE == 82
LP_DECIMALS == 6
WITHDRAW_PRECISION == 6
FEE_LIMIT == 10000
BPS_DENOMINATOR == 10000

Uninitialized == 0
Initialized == 1
Disabled == 2
WithdrawOnly == 3

DISC_INITIALIZE == 0
DISC_DEPOSIT == 1
DISC_WITHDRAW == 2
DISC_SWAP == 3

(***************************************************************************)
(* Addresses.  Plain accounts are small numbers; a derived address is an   *)
(* injective encoding of its seed list, in a range of its own, so that two *)
(* derivations agree exactly when their seeds agree.                       *)
(***************************************************************************)
USER == 5
MINT_X == 6
MINT_Y == 7
USER_X == 8
USER_Y == 9
USER_LP == 10
ALT_X == 11
ROGUE == 12
AUTHORITY == 13
FOREIGN == 14

SEED0 == 1
SEED1 == 2
BUMP0 == 255
LP_BUMP0 == 254

\* derive(["config", seed, mint_x, mint_y, config_bump]) under this program
ConfigPda(seed, mint_x, mint_y, bump) ==
    300000 + ((seed * 20 + mint_x) * 20 + mint_y) * 256 + bump

\* derive([config, token_program, mint]) under the associated-token program
VaultPda(config_addr, token_program, mint) ==
    1000000 + (config_addr * 20 + token_program) * 20 + mint

\* derive(["mint_lp", config, lp_bump]) under this program
MintLpPda(config_addr, lp_bump) ==
    500000000 + config_addr * 256 + lp_bump

CFG == ConfigPda(SEED0, MINT_X, MINT_Y, BUMP0)
VAULT_X == VaultPda(CFG, TOKEN_PROGRAM_ID, MINT_X)
VAULT_Y == VaultPda(CFG, TOKEN_PROGRAM_ID, MINT_Y)
MINT_LP == MintLpPda(CFG, LP_BUMP0)
ROGUE_VAULT == VaultPda(ROGUE, TOKEN_PROGRAM_ID, ZERO_ADDRESS)

CfgAddrs == {CFG, ROGUE, FOREIGN}
TokAddrs == {USER_X, USER_Y, USER_LP, VAULT_X, VAULT_Y, ALT_X}
MintAddrs == {MINT_LP, MINT_X, MINT_Y}

\* the mint and the owner (spending authority) recorded in a token account
TokMint(a) ==
    CASE a \in {USER_X, VAULT_X, ALT_X} -> MINT_X
      [] a \in {USER_Y, VAULT_Y} -> MINT_Y
      [] OTHER -> MINT_LP

TokAuth(a) ==
    IF a \in {VAULT_X, VAULT_Y} THEN CFG ELSE USER

(***************************************************************************)
(* State.                                                                  *)
(*   config   the PoolConfig-shaped accounts (owner, data length, fields)  *)
(*   amount   balance of every token account                               *)
(*   mints    the mint accounts (owner, data length, supply, authority)    *)
(*   clock    the clock oracle's unix timestamp                            *)
(*   ix       the instruction being processed (NoIx between instructions)  *)
(*   result   its result ("Ok" or the error), log: the external calls it   *)
(*            invoked, in order                                            *)
(***************************************************************************)
VARIABLES config, amount, mints, clock, ix, result, log

vars == <<config, amount, mints, clock, ix, result, log>>

NoAccount ==
    [owner |-> SYSTEM_PROGRAM_ID, len |-> 0, state |-> 0, seed |-> 0,
     authority |-> ZERO_ADDRESS, mint_x |-> ZERO_ADDRESS, mint_y |-> ZERO_ADDRESS,
     fee |-> 0, config_bump |-> 0]

\* a zero-filled account of PoolConfig's size that this program owns
ZeroedConfig ==
    [NoAccount EXCEPT !.owner = PROGRAM_ID, !.len = CONFIG_LEN]

\* the accounts of PoolConfig's size that exist beside the pool's: ROGUE,
\* zero-filled and owned by this program, FOREIGN, owned by another program
PreexistingConfig(a) ==
    IF a = ROGUE THEN ZeroedConfig ELSE [ZeroedConfig EXCEPT !.owner = TOKEN_PROGRAM_ID]

NoMint ==
    [owner |-> SYSTEM_PROGRAM_ID, len |-> 0, supply |-> 0, authority |-> ZERO_ADDRESS,
     decimals |-> 0, initialized |-> FALSE]

ForeignMint(supply) ==
    [owner |-> TOKEN_PROGRAM_ID, len |-> MINT_LEN, supply |-> supply,
     authority |-> ZERO_ADDRESS, decimals |-> 0, initialized |-> TRUE]

NoIx == [kind |-> 255, accounts |-> <<>>, signer |-> FALSE, len |-> 0, f |-> <<>>]

Ledger == [config |-> config, amount |-> amount, mints |-> mints]

\* data_len() and owner of any account
DataLen(L, a) ==
    CASE a \in CfgAddrs -> L.config[a].len
      [] a \in TokAddrs -> TOKEN_ACCOUNT_LEN
      [] a \in MintAddrs -> L.mints[a].len
      [] OTHER -> 0

Owner(L, a) ==
    CASE a \in CfgAddrs -> L.config[a].owner
      [] a \in TokAddrs -> TOKEN_PROGRAM_ID
      [] a \in MintAddrs -> L.mints[a].owner
      [] OTHER -> SYSTEM_PROGRAM_ID

(***************************************************************************)
(* Outcome of a (partial) run of an instruction.                           *)
(***************************************************************************)
Fail(err, lg, L) == [err |-> err, log |-> lg, L |-> L]
Done(lg, L) == [err |-> "Ok", log |-> lg, L |-> L]

\* floor(a * b / c), evaluated without forming the product a * b
RECURSIVE MulDivRem(_, _, _)
MulDivRem(a, b, c) ==
    IF b = 0 THEN <<0, 0>>
    ELSE LET h == MulDivRem(a, b \div 2, c)
             r == 2 * h[2] + (IF b % 2 = 1 THEN a % c ELSE 0)
             q == 2 * h[1] + (IF b % 2 = 1 THEN a \div c ELSE 0)
         IN  <<q + (r \div c), r % c>>

MulDiv(a, b, c) == MulDivRem(a, b, c)[1]

(***************************************************************************)
(* External collaborators: the token ledger, the account-creation service  *)
(* and the runtime's signer rule for cross-program calls.  Each returns    *)
(* [ok, L]: whether the call succeeded and the ledger after it.            *)
(***************************************************************************)

\* the authority of a call has signed: it is the transaction's signer, or it
\* is the address the call's signer seeds derive to (pda, 0 when unsigned)
AuthSigned(i, authority, pda) ==
    \/ authority = i.accounts[1] /\ i.signer
    \/ pda # 0 /\ authority = pda

TokenTransfer(L, i, from, to, authority, pda, amt) ==
    IF /\ from \in TokAddrs
       /\ to \in TokAddrs
       /\ TokMint(from) = TokMint(to)
       /\ TokAuth(from) = authority
       /\ AuthSigned(i, authority, pda)
       /\ L.amount[from] >= amt
    THEN [ok |-> TRUE,
          L |-> IF from = to THEN L
                ELSE [L EXCEPT !.amount[from] = @ - amt, !.amount[to] = @ + amt]]
    ELSE [ok |-> FALSE, L |-> L]

TokenMintTo(L, i, mint, account, authority, pda, amt) ==
    IF /\ mint \in MintAddrs
       /\ account \in TokAddrs
       /\ L.mints[mint].initialized
       /\ L.mints[mint].owner = TOKEN_PROGRAM_ID
       /\ TokMint(account) = mint
       /\ L.mints[mint].authority = authority
       /\ AuthSigned(i, authority, pda)
    THEN [ok |-> TRUE,
          L |-> [L EXCEPT !.amount[account] = @ + amt, !.mints[mint].supply = @ + amt]]
    ELSE [ok |-> FALSE, L |-> L]

TokenBurn(L, i, account, mint, authority, pda, amt) ==
    IF /\ mint \in MintAddrs
       /\ account \in TokAddrs
       /\ L.mints[mint].initialized
       /\ L.mints[mint].owner = TOKEN_PROGRAM_ID
       /\ TokMint(account) = mint
       /\ TokAuth(account) = authority
       /\ AuthSigned(i, authority, pda)
       /\ L.amount[account] >= amt
    THEN [ok |-> TRUE,
          L |-> [L EXCEPT !.amount[account] = @ - amt, !.mints[mint].supply = @ - amt]]
    ELSE [ok |-> FALSE, L |-> L]

SystemCreateAccount_Reallocates(L, i, from, to, pda, space, owner) ==
    IF /\ AuthSigned(i, from, 0)
       /\ AuthSigned(i, to, pda)
       /\ to \in CfgAddrs \cup MintAddrs
    THEN [ok |-> TRUE,
          L |-> IF to \in CfgAddrs
                THEN [L EXCEPT !.config[to] = [NoAccount EXCEPT !.owner = owner, !.len = space]]
                ELSE [L EXCEPT !.mints[to] = [NoMint EXCEPT !.owner = owner, !.len = space]]]
    ELSE [ok |-> FALSE, L |-> L]

\* CreateAccount: payer and new account sign, the new account is not in use
SystemCreateAccount(L, i, from, to, pda, space, owner) ==
    IF /\ AuthSigned(i, from, 0)
       /\ AuthSigned(i, to, pda)
       /\ to \in CfgAddrs \cup MintAddrs
       /\ Owner(L, to) = SYSTEM_PROGRAM_ID
       /\ DataLen(L, to) = 0
    THEN [ok |-> TRUE,
          L |-> IF to \in CfgAddrs
                THEN [L EXCEPT !.config[to] = [NoAccount EXCEPT !.owner = owner, !.len = space]]
                ELSE [L EXCEPT !.mints[to] = [NoMint EXCEPT !.owner = owner, !.len = space]]]
    ELSE [ok |-> FALSE, L |-> L]

TokenInitializeMint2(L, mint, decimals, mint_authority) ==
    IF /\ mint \in MintAddrs
       /\ L.mints[mint].owner = TOKEN_PROGRAM_ID
       /\ L.mints[mint].len = MINT_LEN
       /\ ~L.mints[mint].initialized
    THEN [ok |-> TRUE,
          L |-> [L EXCEPT !.mints[mint] =
                    [@ EXCEPT !.initialized = TRUE, !.decimals = decimals,
                              !.supply = 0, !.authority = mint_authority]]]
    ELSE [ok |-> FALSE, L |-> L]

(***************************************************************************)
(* Curve engine.                                                           *)
(***************************************************************************)
ConstantProduct_init(x, y, l, fee) ==
    IF x = 0 \/ y = 0 \/ fee >= BPS_DENOMINATOR
    THEN [ok |-> FALSE, x |-> x, y |-> y, l |-> l, fee |-> fee]
    ELSE [ok |-> TRUE, x |-> x, y |-> y, l |-> IF l = 0 THEN (IF x > y THEN x ELSE y) ELSE l,
          fee |-> fee]

ConstantProduct_swap_FromProduct(curve, p, a, min) ==
    LET after_fee == MulDiv(a, BPS_DENOMINATOR - curve.fee, BPS_DENOMINATOR)
        reserve_in == IF p = "X" THEN curve.x ELSE curve.y
        reserve_out == IF p = "X" THEN curve.y ELSE curve.x
        out == reserve_out - MulDiv(reserve_in, reserve_out, reserve_in + after_fee)
    IN  IF after_fee = 0 \/ out = 0 \/ out < min
        THEN [ok |-> FALSE, deposit |-> after_fee, withdraw |-> out, fee |-> a - after_fee]
        ELSE [ok |-> TRUE, deposit |-> after_fee, withdraw |-> out, fee |-> a - after_fee]

\* swap quote: fee on the input, then the constant-product output, then the
\* non-zero and slippage checks
ConstantProduct_swap(curve, p, a, min) ==
    LET after_fee == MulDiv(a, BPS_DENOMINATOR - curve.fee, BPS_DENOMINATOR)
        reserve_in == IF p = "X" THEN curve.x ELSE curve.y
        reserve_out == IF p = "X" THEN curve.y ELSE curve.x
        out == MulDiv(reserve_out, after_fee, reserve_in + after_fee)
    IN  IF after_fee = 0 \/ out = 0
        THEN [ok |-> FALSE, deposit |-> after_fee, withdraw |-> out, fee |-> a - after_fee]
        ELSE IF out < min
        THEN [ok |-> FALSE, deposit |-> after_fee, withdraw |-> out, fee |-> a - after_fee]
        ELSE [ok |-> TRUE, deposit |-> after_fee, withdraw |-> out, fee |-> a - after_fee]

RECURSIVE Pow10(_)
Pow10(n) == IF n = 0 THEN 1 ELSE 10 * Pow10(n - 1)

xy_withdraw_amounts_from_l_Remainder(x, y, l, a, precision) ==
    IF l = 0 \/ a > l
    THEN [ok |-> FALSE, x |-> 0, y |-> 0]
    ELSE LET scale == Pow10(precision)
             ratio == MulDiv(l - a, scale, l)
         IN  [ok |-> TRUE,
              x |-> MulDiv(x, ratio, scale),
              y |-> MulDiv(y, ratio, scale)]

\* withdraw quote: pro-rata share of both reserves for burning a of l
xy_withdraw_amounts_from_l(x, y, l, a, precision) ==
    IF l = 0 \/ a > l
    THEN [ok |-> FALSE, x |-> 0, y |-> 0]
    ELSE LET scale == Pow10(precision)
             ratio == MulDiv(l - a, scale, l)
         IN  [ok |-> TRUE,
              x |-> x - MulDiv(x, ratio, scale),
              y |-> y - MulDiv(y, ratio, scale)]

(***************************************************************************)
(* Pool Config Store.                                                      *)
(***************************************************************************)
\* Config::load / load_mut: the length and owner checks
ConfigLoad(L, a) ==
    IF DataLen(L, a) # CONFIG_LEN THEN "InvalidAccountData"
    ELSE IF Owner(L, a) # PROGRAM_ID THEN "InvalidAccountOwner"
    ELSE "Ok"

\* the address the config's stored derivation seeds sign for
ConfigSigner(c) == ConfigPda(c.seed, c.mint_x, c.mint_y, c.config_bump)

(***************************************************************************)
(* Swap.  Accounts: user, user_x_ata, user_y_ata, vault_x, vault_y,        *)
(* config, token_program.  Payload: is_x, amount, min, expiration.         *)
(***************************************************************************)
TokenShapeOk(L, a, token_program) ==
    DataLen(L, a) = TOKEN_ACCOUNT_LEN /\ Owner(L, a) = token_program

SwapAccountsTryFrom(L, i) ==
    IF Len(i.accounts) # 7 THEN "NotEnoughAccountKeys"
    ELSE LET user_x_ata == i.accounts[2]
             user_y_ata == i.accounts[3]
             vault_x == i.accounts[4]
             vault_y == i.accounts[5]
             cfg == i.accounts[6]
             token_program == i.accounts[7]
         IN  IF ~i.signer THEN "MissingRequiredSignature"
             ELSE IF DataLen(L, cfg) # CONFIG_LEN THEN "InvalidAccountData"
             ELSE IF Owner(L, cfg) # PROGRAM_ID THEN "InvalidAccountOwner"
             ELSE IF token_program # TOKEN_PROGRAM_ID THEN "InvalidArgument"
             ELSE IF ~TokenShapeOk(L, user_x_ata, token_program) THEN "InvalidAccountOwner"
             ELSE IF ~TokenShapeOk(L, user_y_ata, token_program) THEN "InvalidAccountOwner"
             ELSE IF ~TokenShapeOk(L, vault_x, token_program) THEN "InvalidAccountOwner"
             ELSE IF ~TokenShapeOk(L, vault_y, token_program) THEN "InvalidAccountOwner"
             ELSE "Ok"

Expired_Inclusive(clk, expiration) == expiration # 0 /\ clk >= expiration

\* expiration != 0 && clock.unix_timestamp > expiration
Expired(clk, expiration) == expiration # 0 /\ clk > expiration

SwapInstructionDataTryFrom(i, clk) ==
    IF i.len # SWAP_DATA_LEN THEN "InvalidInstructionData"
    ELSE IF Expired(clk, i.f[4]) THEN "Custom0"
    ELSE IF i.f[2] = 0 THEN "InvalidArgument"
    ELSE IF i.f[3] = 0 THEN "InvalidArgument"
    ELSE "Ok"

SwapTryFrom(L, i, clk) ==
    LET a == SwapAccountsTryFrom(L, i)
    IN  IF a # "Ok" THEN a ELSE SwapInstructionDataTryFrom(i, clk)

\* the pool state Swap requires
SwapStateGate(c) == c.state = Initialized

SwapPair_Flipped(is_x) == IF is_x = 1 THEN "Y" ELSE "X"

\* the side of the pair the user pays in
SwapPair(is_x) == IF is_x = 1 THEN "X" ELSE "Y"

\* the curve Swap quotes on: the balances of the two vault accounts and the
\* config's fee
SwapCurve(L, i) ==
    LET vault_x == i.accounts[4]
        vault_y == i.accounts[5]
        cfg2 == L.config[i.accounts[6]]
    IN  ConstantProduct_init(L.amount[vault_x], L.amount[vault_y], L.amount[vault_x], cfg2.fee)

SwapQuote_NoFloor(curve, i) ==
    ConstantProduct_swap(curve, SwapPair(i.f[1]), i.f[2], 0)

\* the quote for the payload's direction, amount and floor
SwapQuote(curve, i) ==
    ConstantProduct_swap(curve, SwapPair(i.f[1]), i.f[2], i.f[3])

\* the two transfers of a swap, in the order they are invoked
SwapTransfers(i, signer, swap_result) ==
    LET user == i.accounts[1]
        user_x_ata == i.accounts[2]
        user_y_ata == i.accounts[3]
        vault_x == i.accounts[4]
        vault_y == i.accounts[5]
        cfg == i.accounts[6]
    IN  IF i.f[1] = 1
        THEN << [op |-> "Transfer", from |-> user_x_ata, to |-> vault_x, authority |-> user,
                 amount |-> swap_result.deposit, seeds |-> 0],
                [op |-> "Transfer", from |-> vault_y, to |-> user_y_ata, authority |-> cfg,
                 amount |-> swap_result.withdraw, seeds |-> signer] >>
        ELSE << [op |-> "Transfer", from |-> user_y_ata, to |-> vault_y, authority |-> user,
                 amount |-> swap_result.deposit, seeds |-> 0],
                [op |-> "Transfer", from |-> vault_x, to |-> user_x_ata, authority |-> cfg,
                 amount |-> swap_result.withdraw, seeds |-> signer] >>

\* invoke the calls of a list one after the other; the first failure ends the
\* instruction with the ledger program's error.  A "ConfigLoad" entry is the
\* Config::load a handler performs between two calls: it invokes nothing and
\* fails with its own error
RECURSIVE InvokeAll(_, _, _, _)
InvokeAll(L, i, calls, lg) ==
    IF calls = <<>> THEN Done(lg, L)
    ELSE IF Head(calls).op = "ConfigLoad"
    THEN LET load == ConfigLoad(L, Head(calls).account)
         IN  IF load # "Ok" THEN Fail(load, lg, L)
             ELSE InvokeAll(L, i, Tail(calls), lg)
    ELSE LET c == Head(calls)
             r == CASE c.op = "Transfer" ->
                         TokenTransfer(L, i, c.from, c.to, c.authority, c.seeds, c.amount)
                    [] c.op = "MintTo" ->
                         TokenMintTo(L, i, c.mint, c.account, c.mint_authority, c.seeds, c.amount)
                    [] c.op = "Burn" ->
                         TokenBurn(L, i, c.account, c.mint, c.authority, c.seeds, c.amount)
                    [] c.op = "CreateAccount" ->
                         SystemCreateAccount(L, i, c.from, c.to, c.seeds, c.space, c.owner)
                    [] c.op = "InitializeMint2" ->
                         TokenInitializeMint2(L, c.mint, c.decimals, c.mint_authority)
         IN  IF r.ok THEN InvokeAll(r.L, i, Tail(calls), Append(lg, c))
             ELSE Fail("LedgerError", Append(lg, c), L)

SwapProcess_Unchecked(L, i) ==
    LET cfg == i.accounts[6]
        load == ConfigLoad(L, cfg)
    IN  IF load # "Ok" THEN Fail(load, <<>>, L)
        ELSE LET cfg2 == L.config[cfg]
             IN  IF ~SwapStateGate(cfg2) THEN Fail("InvalidAccountData", <<>>, L)
                 ELSE LET curve == SwapCurve(L, i)
                      IN  IF ~curve.ok THEN Fail("ArithmeticOverflow", <<>>, L)
                          ELSE InvokeAll(L, i,
                                   SwapTransfers(i, ConfigSigner(cfg2), SwapQuote(curve, i)),
                                   <<>>)

SwapProcess(L, i) ==
    LET cfg == i.accounts[6]
        load == ConfigLoad(L, cfg)
    IN  IF load # "Ok" THEN Fail(load, <<>>, L)
        ELSE LET cfg2 == L.config[cfg]
             IN  IF ~SwapStateGate(cfg2) THEN Fail("InvalidAccountData", <<>>, L)
                 ELSE LET curve == SwapCurve(L, i)
                      IN  IF ~curve.ok THEN Fail("ArithmeticOverflow", <<>>, L)
                          ELSE LET swap_result == SwapQuote(curve, i)
                               IN  IF ~swap_result.ok THEN Fail("InvalidArgument", <<>>, L)
                                   ELSE IF swap_result.deposit = 0 \/ swap_result.withdraw = 0
                                   THEN Fail("InvalidArgument", <<>>, L)
                                   ELSE InvokeAll(L, i,
                                            SwapTransfers(i, ConfigSigner(cfg2), swap_result), <<>>)

Swap(L, i, clk) ==
    LET t == SwapTryFrom(L, i, clk)
    IN  IF t # "Ok" THEN Fail(t, <<>>, L) ELSE SwapProcess(L, i)

(***************************************************************************)
(* Deposit.  Accounts: user, mint_lp, vault_x, vault_y, user_x_ata,        *)
(* user_y_ata, user_lp_ata, config, token_program.  Payload: amount,       *)
(* max_x, max_y, expiration.                                               *)
(***************************************************************************)
\* the vault check shared by Deposit and Withdraw: both supplied vaults are
\* the addresses derived from the loaded config
VaultsDerived(L, i) ==
    LET vault_x == i.accounts[3]
        vault_y == i.accounts[4]
        cfg == i.accounts[8]
        token_program == i.accounts[9]
    IN  /\ VaultPda(cfg, token_program, L.config[cfg].mint_x) = vault_x
        /\ VaultPda(cfg, token_program, L.config[cfg].mint_y) = vault_y

DepositAccountsTryFrom_NoTokenProgram(L, i) ==
    IF Len(i.accounts) # 9 THEN "NotEnoughAccountKeys"
    ELSE LET cfg == i.accounts[8]
         IN  IF ~i.signer THEN "MissingRequiredSignature"
             ELSE IF DataLen(L, cfg) # CONFIG_LEN THEN "InvalidAccountData"
             ELSE IF Owner(L, cfg) # PROGRAM_ID THEN "InvalidAccountOwner"
             ELSE IF ~VaultsDerived(L, i) THEN "InvalidAccountData"
             ELSE "Ok"

DepositAccountsTryFrom(L, i) ==
    IF Len(i.accounts) # 9 THEN "NotEnoughAccountKeys"
    ELSE LET cfg == i.accounts[8]
             token_program == i.accounts[9]
         IN  IF ~i.signer THEN "MissingRequiredSignature"
             ELSE IF DataLen(L, cfg) # CONFIG_LEN THEN "InvalidAccountData"
             ELSE IF Owner(L, cfg) # PROGRAM_ID THEN "InvalidAccountOwner"
             ELSE IF token_program # TOKEN_PROGRAM_ID THEN "InvalidArgument"
             ELSE IF ConfigLoad(L, cfg) # "Ok" THEN ConfigLoad(L, cfg)
             ELSE IF ~VaultsDerived(L, i) THEN "InvalidAccountData"
             ELSE "Ok"

DepositInstructionDataTryFrom_ZeroAmountOk(i, clk) ==
    IF i.len # DEPOSIT_DATA_LEN THEN "InvalidInstructionData"
    ELSE IF Expired(clk, i.f[4]) THEN "Custom0"
    ELSE "Ok"

DepositInstructionDataTryFrom(i, clk) ==
    IF i.len # DEPOSIT_DATA_LEN THEN "InvalidInstructionData"
    ELSE IF i.f[1] = 0 THEN "InvalidArgument"
    ELSE IF Expired(clk, i.f[4]) THEN "Custom0"
    ELSE "Ok"

DepositStateGate_NoGate(c) == TRUE

\* the pool state Deposit requires
DepositStateGate(c) == c.state = Initialized

DepositTryFrom(L, i, clk) ==
    LET a == DepositAccountsTryFrom(L, i)
        d == DepositInstructionDataTryFrom(i, clk)
        cfg == i.accounts[8]
    IN  IF a # "Ok" THEN a
        ELSE IF d # "Ok" THEN d
        ELSE IF ConfigLoad(L, cfg) # "Ok" THEN ConfigLoad(L, cfg)
        ELSE IF ~DepositStateGate(L.config[cfg]) THEN "InvalidAccountData"
        ELSE "Ok"

DepositCalls_MintFirst(L, i) ==
    LET user == i.accounts[1]
        cfg == i.accounts[8]
    IN  (IF i.f[1] > 0
         THEN << [op |-> "MintTo", mint |-> i.accounts[2], account |-> i.accounts[7],
                  mint_authority |-> cfg, amount |-> i.f[1],
                  seeds |-> ConfigSigner(L.config[cfg])] >>
         ELSE <<>>)
        \o
        (IF i.f[2] > 0
         THEN << [op |-> "Transfer", from |-> i.accounts[5], to |-> i.accounts[3],
                  authority |-> user, amount |-> i.f[2], seeds |-> 0] >>
         ELSE <<>>)
        \o
        (IF i.f[3] > 0
         THEN << [op |-> "Transfer", from |-> i.accounts[6], to |-> i.accounts[4],
                  authority |-> user, amount |-> i.f[3], seeds |-> 0] >>
         ELSE <<>>)

\* the calls of a deposit, in the order they are invoked
DepositCalls(L, i) ==
    LET user == i.accounts[1]
        mint_lp == i.accounts[2]
        vault_x == i.accounts[3]
        vault_y == i.accounts[4]
        user_x_ata == i.accounts[5]
        user_y_ata == i.accounts[6]
        user_lp_ata == i.accounts[7]
        cfg == i.accounts[8]
        amt == i.f[1]
        max_x == i.f[2]
        max_y == i.f[3]
    IN  (IF max_x > 0
         THEN << [op |-> "Transfer", from |-> user_x_ata, to |-> vault_x, authority |-> user,
                  amount |-> max_x, seeds |-> 0] >>
         ELSE <<>>)
        \o
        (IF max_y > 0
         THEN << [op |-> "Transfer", from |-> user_y_ata, to |-> vault_y, authority |-> user,
                  amount |-> max_y, seeds |-> 0] >>
         ELSE <<>>)
        \o
        (IF amt > 0
         THEN << [op |-> "ConfigLoad", account |-> cfg],
                 [op |-> "MintTo", mint |-> mint_lp, account |-> user_lp_ata,
                  mint_authority |-> cfg, amount |-> amt,
                  seeds |-> ConfigSigner(L.config[cfg])] >>
         ELSE <<>>)

DepositProcess_NeedsLiquidity(L, i) ==
    IF i.f[2] = 0 /\ i.f[3] = 0 THEN Fail("InvalidArgument", <<>>, L)
    ELSE InvokeAll(L, i, DepositCalls(L, i), <<>>)

DepositProcess(L, i) == InvokeAll(L, i, DepositCalls(L, i), <<>>)

Deposit_DisablesPool(L, i, clk) ==
    LET t == DepositTryFrom(L, i, clk)
        r == DepositProcess(L, i)
    IN  IF t # "Ok" THEN Fail(t, <<>>, L)
        ELSE IF r.err # "Ok" THEN r
        ELSE [r EXCEPT !.L.config[i.accounts[8]].state = Disabled]

Deposit(L, i, clk) ==
    LET t == DepositTryFrom(L, i, clk)
    IN  IF t # "Ok" THEN Fail(t, <<>>, L) ELSE DepositProcess(L, i)

(***************************************************************************)
(* Withdraw.  Accounts as for Deposit.  Payload: amount, min_x, min_y,     *)
(* expiration.                                                             *)
(***************************************************************************)
WithdrawAccountsTryFrom_NoSigner(L, i) ==
    IF Len(i.accounts) # 9 THEN "NotEnoughAccountKeys"
    ELSE LET mint_lp == i.accounts[2]
             cfg == i.accounts[8]
             token_program == i.accounts[9]
         IN  IF DataLen(L, cfg) # CONFIG_LEN THEN "InvalidAccountData"
             ELSE IF Owner(L, cfg) # PROGRAM_ID THEN "InvalidAccountOwner"
             ELSE IF token_program # TOKEN_PROGRAM_ID THEN "InvalidArgument"
             ELSE IF DataLen(L, mint_lp) # MINT_LEN \/ Owner(L, mint_lp) # token_program
                  THEN "InvalidAccountData"
             ELSE IF ~VaultsDerived(L, i) THEN "InvalidAccountData"
             ELSE IF \E k \in 3..7 : ~TokenShapeOk(L, i.accounts[k], token_program)
                  THEN "InvalidAccountOwner"
             ELSE "Ok"

WithdrawAccountsTryFrom(L, i) ==
    IF Len(i.accounts) # 9 THEN "NotEnoughAccountKeys"
    ELSE LET mint_lp == i.accounts[2]
             vault_x == i.accounts[3]
             vault_y == i.accounts[4]
             user_x_ata == i.accounts[5]
             user_y_ata == i.accounts[6]
             user_lp_ata == i.accounts[7]
             cfg == i.accounts[8]
             token_program == i.accounts[9]
         IN  IF ~i.signer THEN "MissingRequiredSignature"
             ELSE IF DataLen(L, cfg) # CONFIG_LEN THEN "InvalidAccountData"
             ELSE IF Owner(L, cfg) # PROGRAM_ID THEN "InvalidAccountOwner"
             ELSE IF token_program # TOKEN_PROGRAM_ID THEN "InvalidArgument"
             ELSE IF DataLen(L, mint_lp) # MINT_LEN \/ Owner(L, mint_lp) # token_program
                  THEN "InvalidAccountData"
             ELSE IF ConfigLoad(L, cfg) # "Ok" THEN ConfigLoad(L, cfg)
             ELSE IF ~VaultsDerived(L, i) THEN "InvalidAccountData"
             ELSE IF ~TokenShapeOk(L, vault_x, token_program) THEN "InvalidAccountOwner"
             ELSE IF ~TokenShapeOk(L, vault_y, token_program) THEN "InvalidAccountOwner"
             ELSE IF ~TokenShapeOk(L, user_x_ata, token_program) THEN "InvalidAccountOwner"
             ELSE IF ~TokenShapeOk(L, user_y_ata, token_program) THEN "InvalidAccountOwner"
             ELSE IF ~TokenShapeOk(L, user_lp_ata, token_program) THEN "InvalidAccountOwner"
             ELSE "Ok"

WithdrawInstructionDataTryFrom_AtLeast(i, clk) ==
    IF i.len < WITHDRAW_DATA_LEN THEN "InvalidInstructionData"
    ELSE IF i.f[1] = 0 THEN "InvalidArgument"
    ELSE IF Expired(clk, i.f[4]) THEN "Custom0"
    ELSE "Ok"

WithdrawInstructionDataTryFrom(i, clk) ==
    IF i.len # WITHDRAW_DATA_LEN THEN "InvalidInstructionData"
    ELSE IF i.f[1] = 0 THEN "InvalidArgument"
    ELSE IF Expired(clk, i.f[4]) THEN "Custom0"
    ELSE "Ok"

WithdrawQuote_LeavesDust(L, i) ==
    LET mint_lp == L.mints[i.accounts[2]]
        vault_x == L.amount[i.accounts[3]]
        vault_y == L.amount[i.accounts[4]]
    IN  IF mint_lp.supply = i.f[1]
        THEN [ok |-> TRUE, x |-> IF vault_x > 0 THEN vault_x - 1 ELSE 0, y |-> vault_y]
        ELSE xy_withdraw_amounts_from_l(vault_x, vault_y, mint_lp.supply, i.f[1],
                                        WITHDRAW_PRECISION)

\* the (x, y) a withdrawal of i's amount is worth on ledger L
WithdrawQuote(L, i) ==
    LET mint_lp == L.mints[i.accounts[2]]
        vault_x == L.amount[i.accounts[3]]
        vault_y == L.amount[i.accounts[4]]
    IN  IF mint_lp.supply = i.f[1]
        THEN [ok |-> TRUE, x |-> vault_x, y |-> vault_y]
        ELSE xy_withdraw_amounts_from_l(vault_x, vault_y, mint_lp.supply, i.f[1],
                                        WITHDRAW_PRECISION)

WithdrawTryFrom_NoFloor(L, i, clk) ==
    LET a == WithdrawAccountsTryFrom(L, i)
        d == WithdrawInstructionDataTryFrom(i, clk)
        q == WithdrawQuote(L, i)
    IN  IF a # "Ok" THEN a
        ELSE IF d # "Ok" THEN d
        ELSE IF ~q.ok THEN "InvalidArgument"
        ELSE "Ok"

WithdrawTryFrom(L, i, clk) ==
    LET a == WithdrawAccountsTryFrom(L, i)
        d == WithdrawInstructionDataTryFrom(i, clk)
        q == WithdrawQuote(L, i)
    IN  IF a # "Ok" THEN a
        ELSE IF d # "Ok" THEN d
        ELSE IF ~q.ok THEN "InvalidArgument"
        ELSE IF ~(q.x >= i.f[2] /\ q.y >= i.f[3]) THEN "InvalidArgument"
        ELSE "Ok"

WithdrawRequoteLedger_AfterBurn(L, afterBurn) == afterBurn

\* the ledger the execution-time quote reads: the one the instruction started
\* on, the Burn comes after the read
WithdrawRequoteLedger(L, afterBurn) == L

\* the Burn of the user's LP tokens
WithdrawBurn(i) ==
    [op |-> "Burn", account |-> i.accounts[7], mint |-> i.accounts[2],
     authority |-> i.accounts[1], amount |-> i.f[1], seeds |-> 0]

WithdrawPayouts_Doubled(L, i, q) ==
    LET cfg == i.accounts[8]
        signer == ConfigSigner(L.config[cfg])
    IN  (IF q.x > 0
         THEN << [op |-> "Transfer", from |-> i.accounts[3], to |-> i.accounts[5],
                  authority |-> cfg, amount |-> 2 * q.x, seeds |-> signer] >>
         ELSE <<>>)
        \o
        (IF q.y > 0
         THEN << [op |-> "Transfer", from |-> i.accounts[4], to |-> i.accounts[6],
                  authority |-> cfg, amount |-> 2 * q.y, seeds |-> signer] >>
         ELSE <<>>)

\* the payouts of a withdrawal worth q
WithdrawPayouts(L, i, q) ==
    LET vault_x == i.accounts[3]
        vault_y == i.accounts[4]
        user_x_ata == i.accounts[5]
        user_y_ata == i.accounts[6]
        cfg == i.accounts[8]
        signer == ConfigSigner(L.config[cfg])
    IN  (IF q.x > 0
         THEN << [op |-> "Transfer", from |-> vault_x, to |-> user_x_ata, authority |-> cfg,
                  amount |-> q.x, seeds |-> signer] >>
         ELSE <<>>)
        \o
        (IF q.y > 0
         THEN << [op |-> "Transfer", from |-> vault_y, to |-> user_y_ata, authority |-> cfg,
                  amount |-> q.y, seeds |-> signer] >>
         ELSE <<>>)

WithdrawCalls_PayFirst(L, i, q) == WithdrawPayouts(L, i, q) \o <<WithdrawBurn(i)>>

\* the calls of a withdrawal, in the order they are invoked
WithdrawCalls(L, i, q) ==
    <<WithdrawBurn(i), [op |-> "ConfigLoad", account |-> i.accounts[8]]>>
        \o WithdrawPayouts(L, i, q)

WithdrawProcess_BurnThenQuote(L, i) ==
    LET b == InvokeAll(L, i, <<WithdrawBurn(i)>>, <<>>)
        q == WithdrawQuote(b.L, i)
    IN  IF b.err # "Ok" THEN b
        ELSE IF ~q.ok THEN Fail("InvalidArgument", b.log, L)
        ELSE InvokeAll(b.L, i, WithdrawPayouts(L, i, q), b.log)

WithdrawProcess(L, i) ==
    LET burn == WithdrawBurn(i)
        afterBurn == TokenBurn(L, i, burn.account, burn.mint, burn.authority, burn.seeds,
                               burn.amount).L
        q == WithdrawQuote(WithdrawRequoteLedger(L, afterBurn), i)
    IN  IF ~q.ok THEN Fail("InvalidArgument", <<>>, L)
        ELSE InvokeAll(L, i, WithdrawCalls(L, i, q), <<>>)

Withdraw_Gated(L, i, clk) ==
    LET t == WithdrawTryFrom(L, i, clk)
    IN  IF t # "Ok" THEN Fail(t, <<>>, L)
        ELSE IF L.config[i.accounts[8]].state # Initialized
        THEN Fail("InvalidAccountData", <<>>, L)
        ELSE WithdrawProcess(L, i)

Withdraw(L, i, clk) ==
    LET t == WithdrawTryFrom(L, i, clk)
    IN  IF t # "Ok" THEN Fail(t, <<>>, L) ELSE WithdrawProcess(L, i)

(***************************************************************************)
(* Config setters.  Each returns [err, c]: the result and the record after *)
(* the call.                                                               *)
(***************************************************************************)
set_state_AcceptsWithdrawOnly(c, state) ==
    IF state > WithdrawOnly THEN [err |-> "InvalidAccountData", c |-> c]
    ELSE [err |-> "Ok", c |-> [c EXCEPT !.state = state]]

set_state(c, state) ==
    IF state >= WithdrawOnly THEN [err |-> "InvalidAccountData", c |-> c]
    ELSE [err |-> "Ok", c |-> [c EXCEPT !.state = state]]

set_fee_Inclusive(c, fee) ==
    IF fee > FEE_LIMIT THEN [err |-> "InvalidAccountData", c |-> c]
    ELSE [err |-> "Ok", c |-> [c EXCEPT !.fee = fee]]

set_fee(c, fee) ==
    IF fee >= FEE_LIMIT THEN [err |-> "InvalidAccountData", c |-> c]
    ELSE [err |-> "Ok", c |-> [c EXCEPT !.fee = fee]]

set_inner_SwappedMints(c, seed, authority, mint_x, mint_y, fee, config_bump) ==
    LET s1 == set_state(c, Initialized)
    IN  IF s1.err # "Ok" THEN s1
        ELSE LET c4 == [s1.c EXCEPT !.seed = seed, !.authority = authority,
                                    !.mint_x = mint_y, !.mint_y = mint_x]
                 s5 == set_fee(c4, fee)
             IN  IF s5.err # "Ok" THEN s5
                 ELSE [err |-> "Ok", c |-> [s5.c EXCEPT !.config_bump = config_bump]]

set_inner(c, seed, authority, mint_x, mint_y, fee, config_bump) ==
    LET s1 == set_state(c, Initialized)
    IN  IF s1.err # "Ok" THEN s1
        ELSE LET c4 == [s1.c EXCEPT !.seed = seed, !.authority = authority,
                                    !.mint_x = mint_x, !.mint_y = mint_y]
                 s5 == set_fee(c4, fee)
             IN  IF s5.err # "Ok" THEN s5
                 ELSE [err |-> "Ok", c |-> [s5.c EXCEPT !.config_bump = config_bump]]

has_authority_Always(c) == <<c.authority>>

has_authority(c) == IF c.authority = ZERO_ADDRESS THEN <<>> ELSE <<c.authority>>

(***************************************************************************)
(* Initialize.  Accounts: initializer, mint_lp, config, system_program,    *)
(* token_program.  Payload: seed, fee, mint_x, mint_y, config_bump,        *)
(* lp_bump and, in the long layout, authority.                             *)
(***************************************************************************)
InitializeAccountsTryFrom_SignerFirst(L, i) ==
    IF ~i.signer THEN "MissingRequiredSignature"
    ELSE IF Len(i.accounts) # 5 THEN "NotEnoughAccountKeys"
    ELSE IF i.accounts[4] # SYSTEM_PROGRAM_ID THEN "InvalidArgument"
    ELSE IF i.accounts[5] # TOKEN_PROGRAM_ID THEN "InvalidArgument"
    ELSE "Ok"

InitializeAccountsTryFrom(L, i) ==
    IF Len(i.accounts) # 5 THEN "NotEnoughAccountKeys"
    ELSE IF ~i.signer THEN "MissingRequiredSignature"
    ELSE IF i.accounts[4] # SYSTEM_PROGRAM_ID THEN "InvalidArgument"
    ELSE IF i.accounts[5] # TOKEN_PROGRAM_ID THEN "InvalidArgument"
    ELSE "Ok"

\* the decoded payload; the short layout leaves the authority zero-filled
InitializeInstructionDataTryFrom(i) ==
    LET d(authority) == [seed |-> i.f[1], fee |-> i.f[2], mint_x |-> i.f[3], mint_y |-> i.f[4],
                         config_bump |-> i.f[5], lp_bump |-> i.f[6], authority |-> authority]
    IN  CASE i.len = INITIALIZE_DATA_LEN_WITH_AUTHORITY -> [err |-> "Ok", d |-> d(i.f[7])]
          [] i.len = INITIALIZE_DATA_LEN -> [err |-> "Ok", d |-> d(ZERO_ADDRESS)]
          [] OTHER -> [err |-> "InvalidInstructionData", d |-> d(ZERO_ADDRESS)]

InitializeTryFrom(L, i) ==
    LET a == InitializeAccountsTryFrom(L, i)
        p == InitializeInstructionDataTryFrom(i)
    IN  IF a # "Ok" THEN a
        ELSE IF p.err # "Ok" THEN p.err
        ELSE IF p.d.mint_x = p.d.mint_y THEN "InvalidArgument"
        ELSE "Ok"

InitializeProcess_MintFirst(L, i) ==
    LET d == InitializeInstructionDataTryFrom(i).d
        initializer == i.accounts[1]
        mint_lp == i.accounts[2]
        cfg == i.accounts[3]
        create_config ==
            [op |-> "CreateAccount", from |-> initializer, to |-> cfg, space |-> CONFIG_LEN,
             owner |-> PROGRAM_ID,
             seeds |-> ConfigPda(d.seed, d.mint_x, d.mint_y, d.config_bump)]
        create_mint ==
            [op |-> "CreateAccount", from |-> initializer, to |-> mint_lp, space |-> MINT_SPACE,
             owner |-> TOKEN_PROGRAM_ID, seeds |-> MintLpPda(cfg, d.lp_bump)]
        init_mint ==
            [op |-> "InitializeMint2", mint |-> mint_lp, decimals |-> LP_DECIMALS,
             mint_authority |-> cfg, freeze_authority |-> <<>>]
        s1 == InvokeAll(L, i, <<create_mint, init_mint, create_config>>, <<>>)
    IN  IF s1.err # "Ok" THEN s1
        ELSE IF ConfigLoad(s1.L, cfg) # "Ok" THEN Fail(ConfigLoad(s1.L, cfg), s1.log, L)
        ELSE LET w == set_inner(s1.L.config[cfg], d.seed, d.authority, d.mint_x, d.mint_y,
                                d.fee, d.config_bump)
                 L2 == [s1.L EXCEPT !.config[cfg] = w.c]
             IN  IF w.err # "Ok" THEN Fail(w.err, s1.log, L2)
                 ELSE Done(s1.log, L2)

InitializeProcess(L, i) ==
    LET d == InitializeInstructionDataTryFrom(i).d
        initializer == i.accounts[1]
        mint_lp == i.accounts[2]
        cfg == i.accounts[3]
        create_config ==
            [op |-> "CreateAccount", from |-> initializer, to |-> cfg, space |-> CONFIG_LEN,
             owner |-> PROGRAM_ID,
             seeds |-> ConfigPda(d.seed, d.mint_x, d.mint_y, d.config_bump)]
        create_mint ==
            [op |-> "CreateAccount", from |-> initializer, to |-> mint_lp, space |-> MINT_SPACE,
             owner |-> TOKEN_PROGRAM_ID, seeds |-> MintLpPda(cfg, d.lp_bump)]
        init_mint ==
            [op |-> "InitializeMint2", mint |-> mint_lp, decimals |-> LP_DECIMALS,
             mint_authority |-> cfg, freeze_authority |-> <<>>]
        s1 == InvokeAll(L, i, <<create_config>>, <<>>)
    IN  IF s1.err # "Ok" THEN s1
        ELSE IF ConfigLoad(s1.L, cfg) # "Ok" THEN Fail(ConfigLoad(s1.L, cfg), s1.log, L)
        ELSE LET w == set_inner(s1.L.config[cfg], d.seed, d.authority, d.mint_x, d.mint_y,
                                d.fee, d.config_bump)
                 L2 == [s1.L EXCEPT !.config[cfg] = w.c]
             IN  IF w.err # "Ok" THEN Fail(w.err, s1.log, L2)
                 ELSE InvokeAll(L2, i, <<create_mint, init_mint>>, s1.log)

Initialize_FeeChecked(L, i) ==
    LET t == InitializeTryFrom(L, i)
    IN  IF t # "Ok" THEN Fail(t, <<>>, L)
        ELSE IF InitializeInstructionDataTryFrom(i).d.fee >= FEE_LIMIT
        THEN Fail("InvalidAccountData", <<>>, L)
        ELSE InitializeProcess(L, i)

Initialize(L, i) ==
    LET t == InitializeTryFrom(L, i)
    IN  IF t # "Ok" THEN Fail(t, <<>>, L) ELSE InitializeProcess(L, i)

(***************************************************************************)
(* Entry point: the discriminator routes to the handler.                   *)
(***************************************************************************)
process_instruction(L, i, clk) ==
    CASE i.kind = DISC_INITIALIZE -> Initialize(L, i)
      [] i.kind = DISC_DEPOSIT -> Deposit(L, i, clk)
      [] i.kind = DISC_WITHDRAW -> Withdraw(L, i, clk)
      [] i.kind = DISC_SWAP -> Swap(L, i, clk)
      [] OTHER -> Fail("InvalidInstructionData", <<>>, L)

(***************************************************************************)
(* The instructions submitted: for each kind, the well-formed instruction  *)
(* with every payload value of the bounded ranges, and every defective     *)
(* account list, signer flag, payload length and expiration with one       *)
(* fixed payload.                                                          *)
(***************************************************************************)
Ix(kind, accounts, signer, len, f) ==
    [kind |-> kind, accounts |-> accounts, signer |-> signer, len |-> len, f |-> f]

Amounts == 0 .. MaxAmount
Floors == {0, 1, 2}
Expirations == {0, 1}

SwapAccounts == <<USER, USER_X, USER_Y, VAULT_X, VAULT_Y, CFG, TOKEN_PROGRAM_ID>>

SwapAccountLists ==
    { SwapAccounts,
      [SwapAccounts EXCEPT ![4] = ALT_X],
      [SwapAccounts EXCEPT ![6] = ROGUE],
      [SwapAccounts EXCEPT ![7] = SYSTEM_PROGRAM_ID],
      [SwapAccounts EXCEPT ![2] = MINT_X],
      SubSeq(SwapAccounts, 1, 6),
      Append(SwapAccounts, USER) }

SwapInputs ==
    { Ix(DISC_SWAP, acc, TRUE, SWAP_DATA_LEN, <<is_x, a, min, 0>>) :
        acc \in {SwapAccounts, [SwapAccounts EXCEPT ![4] = ALT_X]},
        is_x \in {0, 1}, a \in Amounts, min \in Floors }
    \cup
    { Ix(DISC_SWAP, acc, sg, SWAP_DATA_LEN, <<1, 2, 1, 0>>) :
        acc \in SwapAccountLists, sg \in BOOLEAN }
    \cup
    { Ix(DISC_SWAP, SwapAccounts, TRUE, len, <<1, 2, 1, e>>) :
        len \in {SWAP_DATA_LEN, SWAP_DATA_LEN - 1}, e \in Expirations }

PoolAccounts ==
    <<USER, MINT_LP, VAULT_X, VAULT_Y, USER_X, USER_Y, USER_LP, CFG, TOKEN_PROGRAM_ID>>

PoolAccountLists ==
    { PoolAccounts,
      [PoolAccounts EXCEPT ![3] = ALT_X],
      [PoolAccounts EXCEPT ![4] = VAULT_X],
      [PoolAccounts EXCEPT ![8] = ROGUE, ![3] = ROGUE_VAULT, ![4] = ROGUE_VAULT],
      [PoolAccounts EXCEPT ![9] = SYSTEM_PROGRAM_ID],
      [PoolAccounts EXCEPT ![5] = MINT_Y],
      [PoolAccounts EXCEPT ![2] = MINT_X, ![7] = USER_X],
      SubSeq(PoolAccounts, 1, 8),
      Append(PoolAccounts, USER) }

DepositInputs ==
    { Ix(DISC_DEPOSIT, PoolAccounts, TRUE, DEPOSIT_DATA_LEN, <<a, max_x, max_y, 0>>) :
        a \in Amounts, max_x \in Floors, max_y \in Floors }
    \cup
    { Ix(DISC_DEPOSIT, acc, sg, DEPOSIT_DATA_LEN, <<1, 1, 1, 0>>) :
        acc \in PoolAccountLists, sg \in BOOLEAN }
    \cup
    { Ix(DISC_DEPOSIT, PoolAccounts, TRUE, len, <<1, 1, 1, e>>) :
        len \in {DEPOSIT_DATA_LEN, DEPOSIT_DATA_LEN + 1}, e \in Expirations }

WithdrawInputs ==
    { Ix(DISC_WITHDRAW, acc, TRUE, WITHDRAW_DATA_LEN, <<a, min_x, min_y, 0>>) :
        acc \in {PoolAccounts, [PoolAccounts EXCEPT ![2] = MINT_X, ![7] = USER_X]},
        a \in Amounts, min_x \in Floors, min_y \in {0, 1} }
    \cup
    { Ix(DISC_WITHDRAW, acc, sg, WITHDRAW_DATA_LEN, <<1, 0, 0, 0>>) :
        acc \in PoolAccountLists, sg \in BOOLEAN }
    \cup
    { Ix(DISC_WITHDRAW, PoolAccounts, TRUE, len, <<1, 0, 0, e>>) :
        len \in {WITHDRAW_DATA_LEN, WITHDRAW_DATA_LEN + 1}, e \in Expirations }

InitializeAccounts == <<USER, MINT_LP, CFG, SYSTEM_PROGRAM_ID, TOKEN_PROGRAM_ID>>

InitializeAccountLists ==
    { InitializeAccounts,
      [InitializeAccounts EXCEPT ![3] = ROGUE],
      [InitializeAccounts EXCEPT ![2] = MINT_X],
      [InitializeAccounts EXCEPT ![4] = TOKEN_PROGRAM_ID],
      [InitializeAccounts EXCEPT ![5] = SYSTEM_PROGRAM_ID],
      SubSeq(InitializeAccounts, 1, 4),
      Append(InitializeAccounts, USER) }

Fees == {30, FEE_LIMIT}

InitializeInputs ==
    { Ix(DISC_INITIALIZE, InitializeAccounts, TRUE, INITIALIZE_DATA_LEN_WITH_AUTHORITY,
          <<seed, fee, MINT_X, mint_y, BUMP0, LP_BUMP0, AUTHORITY>>) :
        seed \in {SEED0, SEED1}, fee \in Fees, mint_y \in {MINT_X, MINT_Y} }
    \cup
    { Ix(DISC_INITIALIZE, InitializeAccounts, TRUE, INITIALIZE_DATA_LEN,
         <<SEED0, 0, MINT_X, MINT_Y, BUMP0, LP_BUMP0>>) }
    \cup
    { Ix(DISC_INITIALIZE, acc, sg, len, <<SEED0, 30, MINT_X, MINT_Y, BUMP0, LP_BUMP0, AUTHORITY>>) :
        acc \in InitializeAccountLists, sg \in BOOLEAN,
        len \in {INITIALIZE_DATA_LEN_WITH_AUTHORITY, INITIALIZE_DATA_LEN_WITH_AUTHORITY + 1} }

(***************************************************************************)
(* Specification.                                                          *)
(***************************************************************************)
Init ==
    /\ config = [a \in CfgAddrs |-> IF a # CFG THEN PreexistingConfig(a) ELSE NoAccount]
    /\ amount = [a \in TokAddrs |->
                    CASE a = USER_X -> UserX0
                      [] a = USER_Y -> UserY0
                      [] a = ALT_X -> AltX0
                      [] OTHER -> 0]
    /\ mints = [a \in MintAddrs |->
                    CASE a = MINT_X -> ForeignMint(UserX0 + AltX0)
                      [] a = MINT_Y -> ForeignMint(UserY0)
                      [] OTHER -> NoMint]
    /\ clock = 1
    /\ ix = NoIx
    /\ result = "Ok"
    /\ log = <<>>

\* one instruction of one transaction: its effects persist only if it succeeds
Submit(i) ==
    /\ ix = NoIx
    /\ \E o \in {process_instruction(Ledger, i, clock)} :
           /\ ix' = i
           /\ result' = o.err
           /\ log' = o.log
           /\ config' = IF o.err = "Ok" THEN o.L.config ELSE config
           /\ amount' = IF o.err = "Ok" THEN o.L.amount ELSE amount
           /\ mints' = IF o.err = "Ok" THEN o.L.mints ELSE mints
    /\ UNCHANGED clock

InitializeIx == \E i \in InitializeInputs : Submit(i)

DepositIx ==
    \E i \in DepositInputs :
        /\ mints[MINT_LP].supply + i.f[1] <= MaxSupply
        /\ Submit(i)

WithdrawIx == \E i \in WithdrawInputs : Submit(i)

SwapIx == \E i \in SwapInputs : Submit(i)

UnknownIx == Submit(Ix(4, <<USER>>, TRUE, 0, <<>>))

\* the transaction ends and the next one may be submitted
EndTransaction ==
    /\ ix # NoIx
    /\ ix' = NoIx
    /\ result' = "Ok"
    /\ log' = <<>>
    /\ UNCHANGED <<config, amount, mints, clock>>

Tick ==
    /\ ix = NoIx
    /\ clock < MaxClock
    /\ clock' = clock + 1
    /\ UNCHANGED <<config, amount, mints, ix, result, log>>

Next ==
    \/ InitializeIx
    \/ DepositIx
    \/ WithdrawIx
    \/ SwapIx
    \/ UnknownIx
    \/ EndTransaction
    \/ Tick

Spec == Init /\ [][Next]_vars

TypeOK ==
    /\ \A a \in TokAddrs : amount[a] \in Nat
    /\ \A a \in MintAddrs : mints[a].supply \in Nat
    /\ clock \in 1 .. MaxClock

(***************************************************************************)
(* The swap scenario of the specification: a pool of (1 000 000,           *)
(* 1 000 000) with a fee of 30 bps, the user selling X in lots.            *)
(***************************************************************************)
InitScenario ==
    /\ config = [a \in CfgAddrs |->
                    IF a # CFG THEN PreexistingConfig(a)
                    ELSE set_inner(ZeroedConfig, SEED0, AUTHORITY, MINT_X, MINT_Y, 30, BUMP0).c]
    /\ amount = [a \in TokAddrs |->
                    CASE a \in {VAULT_X, VAULT_Y} -> 1000000
                      [] a = USER_X -> 40000
                      [] a = USER_LP -> 1000
                      [] OTHER -> 0]
    /\ mints = [a \in MintAddrs |->
                    CASE a = MINT_X -> ForeignMint(1040000)
                      [] a = MINT_Y -> ForeignMint(1000000)
                      [] OTHER -> [ForeignMint(1000) EXCEPT !.authority = CFG,
                                                            !.decimals = LP_DECIMALS]]
    /\ clock = 1
    /\ ix = NoIx
    /\ result = "Ok"
    /\ log = <<>>

ScenarioSwapInputs ==
    { Ix(DISC_SWAP, SwapAccounts, TRUE, SWAP_DATA_LEN, <<1, a, min, 0>>) :
        a \in {5000, 10000, 20000}, min \in {1, 9871, 9872} }

ScenarioSwapIx == \E i \in ScenarioSwapInputs : Submit(i)

NextScenario == ScenarioSwapIx \/ EndTransaction

SpecScenario == InitScenario /\ [][NextScenario]_vars

(***************************************************************************)
(* The pool's lifecycle: an existing pool with reserves and LP supply, its *)
(* stored state moved by the setter between instructions.                  *)
(***************************************************************************)
StateValues == 0 .. MaxStateValue

InitLifecycle ==
    /\ config = [a \in CfgAddrs |->
                    IF a # CFG THEN PreexistingConfig(a)
                    ELSE set_inner(ZeroedConfig, SEED0, AUTHORITY, MINT_X, MINT_Y, 0, BUMP0).c]
    /\ amount = [a \in TokAddrs |->
                    CASE a = VAULT_X -> 2
                      [] a \in {VAULT_Y, USER_X, USER_Y, USER_LP} -> 1
                      [] OTHER -> 0]
    /\ mints = [a \in MintAddrs |->
                    CASE a = MINT_X -> ForeignMint(3)
                      [] a = MINT_Y -> ForeignMint(2)
                      [] OTHER -> [ForeignMint(1) EXCEPT !.authority = CFG,
                                                         !.decimals = LP_DECIMALS]]
    /\ clock = 1
    /\ ix = NoIx
    /\ result = "Ok"
    /\ log = <<>>

\* Config::set_state on the pool's record; a rejected value leaves it as it is
SetState(v) ==
    /\ ix = NoIx
    /\ config' = [config EXCEPT ![CFG] = set_state(@, v).c]
    /\ UNCHANGED <<amount, mints, clock, ix, result, log>>

SetStateOp == \E v \in StateValues : SetState(v)

NextLifecycle ==
    \/ SetStateOp
    \/ InitializeIx
    \/ DepositIx
    \/ WithdrawIx
    \/ SwapIx
    \/ EndTransaction

SpecLifecycle == InitLifecycle /\ [][NextLifecycle]_vars

(***************************************************************************)
(* The withdraw quote over a range of reserves and LP supplies: the user   *)
(* deposits any amounts up to QuoteMaxReserve for LP tokens up to a supply *)
(* of QuoteMaxSupply into an initialized pool, and withdraws.              *)
(***************************************************************************)
InitQuote ==
    /\ config = [a \in CfgAddrs |->
                    IF a # CFG THEN PreexistingConfig(a)
                    ELSE set_inner(ZeroedConfig, SEED0, AUTHORITY, MINT_X, MINT_Y, 30, BUMP0).c]
    /\ amount = [a \in TokAddrs |->
                    IF a \in {USER_X, USER_Y} THEN QuoteMaxReserve ELSE 0]
    /\ mints = [a \in MintAddrs |->
                    IF a \in {MINT_X, MINT_Y} THEN ForeignMint(QuoteMaxReserve)
                    ELSE [ForeignMint(0) EXCEPT !.authority = CFG, !.decimals = LP_DECIMALS]]
    /\ clock = 1
    /\ ix = NoIx
    /\ result = "Ok"
    /\ log = <<>>

QuoteDepositIx ==
    \E a \in 1 .. QuoteMaxSupply, max_x \in 0 .. QuoteMaxReserve, max_y \in 0 .. QuoteMaxReserve :
        /\ mints[MINT_LP].supply + a <= QuoteMaxSupply
        /\ max_x <= amount[USER_X]
        /\ max_y <= amount[USER_Y]
        /\ Submit(Ix(DISC_DEPOSIT, PoolAccounts, TRUE, DEPOSIT_DATA_LEN, <<a, max_x, max_y, 0>>))

\* the Withdraw of a LP tokens with no floor
QuoteWithdrawInput(a) ==
    Ix(DISC_WITHDRAW, PoolAccounts, TRUE, WITHDRAW_DATA_LEN, <<a, 0, 0, 0>>)

QuoteWithdrawIx == \E a \in 1 .. QuoteMaxSupply : Submit(QuoteWithdrawInput(a))

NextQuote == QuoteDepositIx \/ QuoteWithdrawIx \/ EndTransaction

SpecQuote == InitQuote /\ [][NextQuote]_vars

(***************************************************************************)
(* Validation: an existing pool with small reserves, every instruction     *)
(* submitted with every combination of account list, signer flag, payload  *)
(* length, zero and nonzero payload fields and expiration.                 *)
(***************************************************************************)
InitValidation ==
    /\ config = [a \in CfgAddrs |->
                    IF a # CFG THEN PreexistingConfig(a)
                    ELSE set_inner(ZeroedConfig, SEED0, AUTHORITY, MINT_X, MINT_Y, 0, BUMP0).c]
    /\ amount = [a \in TokAddrs |->
                    CASE a = VAULT_Y -> 2
                      [] a \in {VAULT_X, USER_LP} -> 1
                      [] OTHER -> 0]
    /\ mints = [a \in MintAddrs |->
                    CASE a = MINT_X -> ForeignMint(1)
                      [] a = MINT_Y -> ForeignMint(2)
                      [] OTHER -> [ForeignMint(1) EXCEPT !.authority = CFG,
                                                         !.decimals = LP_DECIMALS]]
    /\ clock = 1
    /\ ix = NoIx
    /\ result = "Ok"
    /\ log = <<>>

ValidationPoolLists ==
    PoolAccountLists \cup
    { [PoolAccounts EXCEPT ![8] = FOREIGN], [PoolAccounts EXCEPT ![8] = USER_X] }

ValidationSwapLists ==
    SwapAccountLists \cup
    { [SwapAccounts EXCEPT ![6] = FOREIGN], [SwapAccounts EXCEPT ![6] = USER_X] }

ValidationDepositInputs ==
    { Ix(DISC_DEPOSIT, acc, sg, len, <<a, m, m, e>>) :
        acc \in ValidationPoolLists, sg \in BOOLEAN,
        len \in {DEPOSIT_DATA_LEN - 1, DEPOSIT_DATA_LEN, DEPOSIT_DATA_LEN + 1},
        a \in {0, 1}, m \in {0, 1}, e \in Expirations }

ValidationWithdrawInputs ==
    { Ix(DISC_WITHDRAW, acc, sg, len, <<a, m, m, e>>) :
        acc \in ValidationPoolLists, sg \in BOOLEAN,
        len \in {WITHDRAW_DATA_LEN - 1, WITHDRAW_DATA_LEN, WITHDRAW_DATA_LEN + 1},
        a \in {0, 1}, m \in {0, 1}, e \in Expirations }

ValidationSwapInputs ==
    { Ix(DISC_SWAP, acc, sg, len, <<is_x, a, m, e>>) :
        acc \in ValidationSwapLists, sg \in BOOLEAN,
        len \in {SWAP_DATA_LEN - 1, SWAP_DATA_LEN, SWAP_DATA_LEN + 1},
        is_x \in {0, 1}, a \in {0, 1}, m \in {0, 1}, e \in Expirations }

ValidationInitializeInputs ==
    { Ix(DISC_INITIALIZE, acc, sg, len, <<SEED0, 30, MINT_X, mint_y, BUMP0, LP_BUMP0, AUTHORITY>>) :
        acc \in InitializeAccountLists, sg \in BOOLEAN,
        len \in {INITIALIZE_DATA_LEN - 1, INITIALIZE_DATA_LEN, INITIALIZE_DATA_LEN + 1,
                 INITIALIZE_DATA_LEN_WITH_AUTHORITY - 1, INITIALIZE_DATA_LEN_WITH_AUTHORITY,
                 INITIALIZE_DATA_LEN_WITH_AUTHORITY + 1},
        mint_y \in {MINT_X, MINT_Y} }

ValidationInitializeIx == \E i \in ValidationInitializeInputs : Submit(i)

ValidationDepositIx ==
    \E i \in ValidationDepositInputs :
        /\ mints[MINT_LP].supply + i.f[1] <= MaxSupply
        /\ Submit(i)

ValidationWithdrawIx == \E i \in ValidationWithdrawInputs : Submit(i)

ValidationSwapIx == \E i \in ValidationSwapInputs : Submit(i)

NextValidation ==
    \/ ValidationInitializeIx
    \/ ValidationDepositIx
    \/ ValidationWithdrawIx
    \/ ValidationSwapIx
    \/ UnknownIx
    \/ EndTransaction
    \/ Tick

SpecValidation == InitValidation /\ [][NextValidation]_vars

(***************************************************************************)
(* Properties.                                                             *)
(***************************************************************************)
StateViolation == "InvalidAccountData"
AddressMismatch == "InvalidAccountData"
SlippageViolation == "InvalidArgument"

\* the instruction ix' is submitted in this step
Submitted(kind) == ix = NoIx /\ ix'.kind = kind

\* the account an instruction names as the pool config (0: malformed list)
ConfigOf(i) ==
    CASE i.kind = DISC_INITIALIZE /\ Len(i.accounts) = 5 -> i.accounts[3]
      [] i.kind \in {DISC_DEPOSIT, DISC_WITHDRAW} /\ Len(i.accounts) = 9 -> i.accounts[8]
      [] i.kind = DISC_SWAP /\ Len(i.accounts) = 7 -> i.accounts[6]
      [] OTHER -> 0

\* the stored state of the config i names is not Initialized
NotInitialized(i) ==
    ConfigOf(i) \in CfgAddrs /\ config[ConfigOf(i)].state # Initialized

\* every check of i before its state gate passes
ReachesGate(i) ==
    CASE i.kind = DISC_DEPOSIT ->
            /\ DepositAccountsTryFrom(Ledger, i) = "Ok"
            /\ DepositInstructionDataTryFrom(i, clock) = "Ok"
      [] i.kind = DISC_SWAP -> SwapTryFrom(Ledger, i, clock) = "Ok"
      [] OTHER -> FALSE

\* C1 as stated: Initialize, Deposit and Swap submitted while the pool's
\* stored state is not Initialized fail, with StateViolation once the other
\* checks pass, and invoke no external call.
C1_Original ==
    [][ (ix = NoIx /\ ix'.kind \in {DISC_INITIALIZE, DISC_DEPOSIT, DISC_SWAP}
         /\ NotInitialized(ix'))
        => (result' # "Ok" /\ log' = <<>>) ]_vars

\* C1 (amended): Deposit and Swap submitted while the pool's stored state is
\* not Initialized fail without invoking any external call, with
\* StateViolation (InvalidAccountData) once their account and payload checks
\* pass; Initialize has no state gate, it succeeds only on a config account
\* whose state is not Initialized and leaves it Initialized.
C1_StateGate ==
    [][ /\ (ix = NoIx /\ ix'.kind \in {DISC_DEPOSIT, DISC_SWAP} /\ NotInitialized(ix'))
           => /\ result' # "Ok"
              /\ log' = <<>>
              /\ ReachesGate(ix') => result' = StateViolation
        /\ (Submitted(DISC_INITIALIZE) /\ result' = "Ok")
           => /\ NotInitialized(ix')
              /\ config'[ConfigOf(ix')].state = Initialized ]_vars

\* a Deposit that passed every other check was stopped by the state gate
C1_Witness ==
    /\ ix.kind = DISC_DEPOSIT
    /\ NotInitialized(ix)
    /\ ReachesGate(ix)
    /\ result = StateViolation
    /\ log = <<>>

\* the config i names can be loaded, and a vault i supplies is not the
\* address derived from it
VaultMismatch(i) ==
    /\ ConfigOf(i) \in CfgAddrs
    /\ ConfigLoad(Ledger, ConfigOf(i)) = "Ok"
    /\ LET c == config[ConfigOf(i)]
           vx == IF i.kind = DISC_SWAP THEN i.accounts[4] ELSE i.accounts[3]
           vy == IF i.kind = DISC_SWAP THEN i.accounts[5] ELSE i.accounts[4]
           tp == IF i.kind = DISC_SWAP THEN i.accounts[7] ELSE i.accounts[9]
       IN  \/ vx # VaultPda(ConfigOf(i), tp, c.mint_x)
           \/ vy # VaultPda(ConfigOf(i), tp, c.mint_y)

\* C2: Deposit, Withdraw and Swap given a vault_x or vault_y that is not the
\* address derived from (config, token program, mint) fail and invoke no
\* transfer, mint or burn.
C2_VaultAddressChecked ==
    [][ (ix = NoIx /\ ix'.kind \in {DISC_DEPOSIT, DISC_WITHDRAW, DISC_SWAP}
         /\ VaultMismatch(ix'))
        => (result' # "Ok" /\ log' = <<>>) ]_vars

RefAfterFee(i) ==
    (i.f[2] * (10000 - config[i.accounts[6]].fee)) \div 10000

RefReserveIn(i) == IF i.f[1] = 1 THEN amount[i.accounts[4]] ELSE amount[i.accounts[5]]

RefReserveOut(i) == IF i.f[1] = 1 THEN amount[i.accounts[5]] ELSE amount[i.accounts[4]]

RefAmountOut(i) ==
    (RefReserveOut(i) * RefAfterFee(i)) \div (RefReserveIn(i) + RefAfterFee(i))

\* C4: a successful Swap moves floor(amount * (10000 - fee) / 10000) in and
\* floor(reserve_out * after_fee / (reserve_in + after_fee)) out, reserve_in
\* being vault_x's balance exactly when is_x, fee the config's stored fee.
C4_QuoteIsReference ==
    [][ (Submitted(DISC_SWAP) /\ result' = "Ok")
        => /\ Len(log') = 2
           /\ log'[1].amount = RefAfterFee(ix')
           /\ log'[2].amount = RefAmountOut(ix') ]_vars

\* a swap of Y for X on unequal reserves, with the fee truncating the input
C4_Witness ==
    /\ ix.kind = DISC_SWAP
    /\ result = "Ok"
    /\ ix.f[1] = 0
    /\ log[1].amount < ix.f[2]
    /\ amount[VAULT_X] # amount[VAULT_Y]

\* the output quoted for i without forming large products
ScenarioOut(i) ==
    LET after_fee == MulDiv(i.f[2], 10000 - config[i.accounts[6]].fee, 10000)
    IN  MulDiv(RefReserveOut(i), after_fee, RefReserveIn(i) + after_fee)

\* C5: a Swap succeeds only with a quoted output >= min and fails with
\* SlippageViolation, without a transfer, when it is below min; on
\* (1 000 000, 1 000 000) at 30 bps, 10 000 of X quotes 9970 in and 9871 out,
\* so min = 9872 fails and min = 9871 succeeds.
C5_SlippageFloor ==
    [][ Submitted(DISC_SWAP)
        => /\ result' = "Ok" => (log'[2].amount >= ix'.f[3] /\ ScenarioOut(ix') >= ix'.f[3])
           /\ (ScenarioOut(ix') > 0 /\ ScenarioOut(ix') < ix'.f[3])
                 => (result' = SlippageViolation /\ log' = <<>>)
           /\ (amount[VAULT_X] = 1000000 /\ amount[VAULT_Y] = 1000000
               /\ ix'.f[1] = 1 /\ ix'.f[2] = 10000)
                 => /\ ix'.f[3] = 9872 => (result' = SlippageViolation /\ log' = <<>>)
                    /\ ix'.f[3] = 9871 => /\ result' = "Ok"
                                          /\ log'[1].amount = 9970
                                          /\ log'[2].amount = 9871 ]_vars

\* the scenario's swap went through at min = 9871
C5_Witness ==
    /\ ix.kind = DISC_SWAP
    /\ ix.f = <<1, 10000, 9871, 0>>
    /\ result = "Ok"
    /\ amount[VAULT_X] = 1009970
    /\ amount[VAULT_Y] = 990129

\* the scenario's swap was refused at min = 9872
C5_WitnessRefused ==
    /\ ix.kind = DISC_SWAP
    /\ ix.f = <<1, 10000, 9872, 0>>
    /\ result = SlippageViolation
    /\ amount[VAULT_X] = 1000000
    /\ amount[VAULT_Y] = 1000000

\* what the external calls of lg paid out of a vault
PaidOut(lg, vault) ==
    LET S == {k \in 1 .. Len(lg) : lg[k].op = "Transfer" /\ lg[k].from = vault}
    IN  IF S = {} THEN 0 ELSE lg[CHOOSE k \in S : TRUE].amount

C7_RequoteAgrees ==
    [][ (Submitted(DISC_WITHDRAW) /\ result' = "Ok")
        => LET q == WithdrawQuote(Ledger, ix')
           IN  /\ q.ok
               /\ PaidOut(log', ix'.accounts[3]) = q.x
               /\ PaidOut(log', ix'.accounts[4]) = q.y
               /\ q.x >= ix'.f[2]
               /\ q.y >= ix'.f[3] ]_vars

\* part of the supply was burnt and something was paid out against a floor
C7_Witness ==
    /\ ix.kind = DISC_WITHDRAW
    /\ result = "Ok"
    /\ mints[ix.accounts[2]].supply > 0
    /\ Len(log) >= 2
    /\ ix.f[2] > 0

\* C8: the calls of a Withdraw are the Burn of amount, authorized by the
\* user, then the payouts, each of an amount > 0 and authorized by the
\* config's derived signer, x from vault_x before y from vault_y; no payout
\* is invoked before the Burn.
C8_BurnBeforePayout ==
    (ix.kind = DISC_WITHDRAW /\ log # <<>>)
    => /\ log[1] = [op |-> "Burn", account |-> ix.accounts[7], mint |-> ix.accounts[2],
                    authority |-> ix.accounts[1], amount |-> ix.f[1], seeds |-> 0]
       /\ Len(log) <= 3
       /\ \A k \in 2 .. Len(log) :
            /\ log[k].op = "Transfer"
            /\ log[k].amount > 0
            /\ log[k].authority = ix.accounts[8]
            /\ log[k].seeds = ix.accounts[8]
            /\ \/ log[k].from = ix.accounts[3] /\ log[k].to = ix.accounts[5]
               \/ log[k].from = ix.accounts[4] /\ log[k].to = ix.accounts[6]
       /\ Len(log) = 3 => (log[2].from = ix.accounts[3] /\ log[3].from = ix.accounts[4])

\* a Withdraw that burnt and then paid out of both vaults
C8_Witness ==
    /\ ix.kind = DISC_WITHDRAW
    /\ result = "Ok"
    /\ Len(log) = 3
    /\ log[1].op = "Burn"

\* the calls the payload of a Deposit asks for, from the payload alone
ExpectedDepositLog(i) ==
    (IF i.f[2] > 0
     THEN << [op |-> "Transfer", from |-> i.accounts[5], to |-> i.accounts[3],
              authority |-> i.accounts[1], amount |-> i.f[2], seeds |-> 0] >>
     ELSE <<>>)
    \o
    (IF i.f[3] > 0
     THEN << [op |-> "Transfer", from |-> i.accounts[6], to |-> i.accounts[4],
              authority |-> i.accounts[1], amount |-> i.f[3], seeds |-> 0] >>
     ELSE <<>>)
    \o
    << [op |-> "MintTo", mint |-> i.accounts[2], account |-> i.accounts[7],
        mint_authority |-> i.accounts[8], amount |-> i.f[1], seeds |-> i.accounts[8]] >>

\* C9: a successful Deposit transfers exactly max_x (if > 0) into vault_x,
\* then exactly max_y (if > 0) into vault_y, both authorized by the user, then
\* mints exactly amount LP tokens under the config's derived authority,
\* whatever the reserves and the LP supply are.
C9_DepositExact ==
    [][ (Submitted(DISC_DEPOSIT) /\ result' = "Ok")
        => /\ log' = ExpectedDepositLog(ix')
           /\ amount'[VAULT_X] = amount[VAULT_X] + ix'.f[2]
           /\ amount'[VAULT_Y] = amount[VAULT_Y] + ix'.f[3]
           /\ amount'[USER_LP] = amount[USER_LP] + ix'.f[1]
           /\ mints'[MINT_LP].supply = mints[MINT_LP].supply + ix'.f[1] ]_vars

\* a Deposit of unequal amounts into a pool that already held reserves
C9_Witness ==
    /\ ix.kind = DISC_DEPOSIT
    /\ result = "Ok"
    /\ Len(log) = 3
    /\ ix.f[2] # ix.f[3]
    /\ amount[VAULT_X] > ix.f[2]
    /\ mints[MINT_LP].supply > ix.f[1]

\* C10: a successful Swap invokes exactly two transfers: the deposit from the
\* user's input account into the pool's vault of the input asset, authorized
\* by the user, then the withdrawal from the pool's vault of the output asset
\* to the user's output account, authorized by the config; X is the input
\* when is_x, Y otherwise.
C10_SwapTwoTransfers ==
    [][ (Submitted(DISC_SWAP) /\ result' = "Ok")
        => LET i == ix'
               cfg == i.accounts[6]
               pool_x == VaultPda(cfg, i.accounts[7], config[cfg].mint_x)
               pool_y == VaultPda(cfg, i.accounts[7], config[cfg].mint_y)
               user_in == IF i.f[1] = 1 THEN i.accounts[2] ELSE i.accounts[3]
               user_out == IF i.f[1] = 1 THEN i.accounts[3] ELSE i.accounts[2]
               vault_in == IF i.f[1] = 1 THEN pool_x ELSE pool_y
               vault_out == IF i.f[1] = 1 THEN pool_y ELSE pool_x
           IN  /\ Len(log') = 2
               /\ \A k \in 1 .. 2 : log'[k].op = "Transfer" /\ log'[k].amount > 0
               /\ log'[1].from = user_in /\ log'[1].to = vault_in
               /\ log'[1].authority = i.accounts[1] /\ log'[1].seeds = 0
               /\ log'[2].from = vault_out /\ log'[2].to = user_out
               /\ log'[2].authority = cfg /\ log'[2].seeds = cfg ]_vars

\* the payload Initialize decodes from i
InitializeFields(i) == InitializeInstructionDataTryFrom(i).d

\* C11: a successful Initialize leaves a PoolConfig whose state is
\* Initialized, whose seed, authority, mint_x, mint_y, fee and config_bump
\* are the payload's (mint_x # mint_y, fee < 10000), and whose address is the
\* one derived from the stored seed, mints and bump.
C11_InitializeWritesConfig ==
    [][ (Submitted(DISC_INITIALIZE) /\ result' = "Ok")
        => LET d == InitializeFields(ix')
               c == config'[ix'.accounts[3]]
           IN  /\ d.mint_x # d.mint_y
               /\ d.fee < FEE_LIMIT
               /\ c.state = Initialized
               /\ c.seed = d.seed
               /\ c.authority = d.authority
               /\ c.mint_x = d.mint_x
               /\ c.mint_y = d.mint_y
               /\ c.fee = d.fee
               /\ c.config_bump = d.config_bump
               /\ c.len = CONFIG_LEN
               /\ c.owner = PROGRAM_ID
               /\ ix'.accounts[3] = ConfigPda(c.seed, c.mint_x, c.mint_y, c.config_bump) ]_vars

\* an Initialize with an authority and a nonzero fee went through
C11_Witness ==
    /\ ix.kind = DISC_INITIALIZE
    /\ result = "Ok"
    /\ config[CFG].state = Initialized
    /\ config[CFG].authority = AUTHORITY
    /\ config[CFG].fee = 30

\* the external calls the payload of an Initialize asks for, in order
ExpectedInitializeLog(i) ==
    LET d == InitializeFields(i)
    IN  << [op |-> "CreateAccount", from |-> i.accounts[1], to |-> i.accounts[3],
            space |-> CONFIG_LEN, owner |-> PROGRAM_ID,
            seeds |-> ConfigPda(d.seed, d.mint_x, d.mint_y, d.config_bump)],
           [op |-> "CreateAccount", from |-> i.accounts[1], to |-> i.accounts[2],
            space |-> MINT_LEN, owner |-> TOKEN_PROGRAM_ID,
            seeds |-> MintLpPda(i.accounts[3], d.lp_bump)],
           [op |-> "InitializeMint2", mint |-> i.accounts[2], decimals |-> 6,
            mint_authority |-> i.accounts[3], freeze_authority |-> <<>>] >>

\* C12: the calls of an Initialize are, in order, the creation of the config
\* account (PoolConfig's length, owned by this program), the creation of the
\* LP mint account (mint record length, owned by the token program) and the
\* mint's initialization (6 decimals, no freeze authority, mint authority the
\* config address); the record is written between the first and the second;
\* a failing step is the last one invoked, and on success all three were
\* invoked and the mint has supply 0.
C12_InitializeOrder ==
    ix.kind = DISC_INITIALIZE
    => /\ log # <<>> => log = SubSeq(ExpectedInitializeLog(ix), 1, Len(log))
       /\ Len(log) <= 3
       /\ result = "Ok"
          => /\ Len(log) = 3
             /\ config[ix.accounts[3]].state = Initialized
             /\ mints[ix.accounts[2]].initialized
             /\ mints[ix.accounts[2]].supply = 0
             /\ mints[ix.accounts[2]].decimals = 6
             /\ mints[ix.accounts[2]].authority = ix.accounts[3]
       /\ (log # <<>> /\ InitializeFields(ix).fee >= FEE_LIMIT)
          => (Len(log) = 1 /\ result # "Ok")

\* an Initialize whose record write failed after the config account was
\* created: nothing of the LP mint was invoked
C12_Witness ==
    /\ ix.kind = DISC_INITIALIZE
    /\ result = "InvalidAccountData"
    /\ Len(log) = 1
    /\ log[1].op = "CreateAccount"

\* C13: a PoolConfig account that exists is never recreated, overwritten or
\* deleted by any instruction; an Initialize naming an existing config
\* account fails.
C13_ConfigCreatedOnce ==
    [][ /\ \A a \in CfgAddrs : config[a].len # 0 => config'[a] = config[a]
        /\ (Submitted(DISC_INITIALIZE) /\ ConfigOf(ix') \in CfgAddrs
            /\ config[ConfigOf(ix')].len # 0)
           => result' # "Ok" ]_vars

\* a second, well-formed Initialize of the pool that exists was refused at
\* the creation of the config account
C13_Witness ==
    /\ ix.kind = DISC_INITIALIZE
    /\ ix.accounts = InitializeAccounts
    /\ InitializeFields(ix).fee # config[CFG].fee
    /\ config[CFG].state = Initialized
    /\ result = "LedgerError"
    /\ Len(log) = 1

\* the token accounts and the LP mint an instruction consumes, by position
ConsumedTokenAccounts(i) ==
    CASE i.kind = DISC_SWAP /\ Len(i.accounts) = 7 -> {i.accounts[k] : k \in 2 .. 5}
      [] i.kind \in {DISC_DEPOSIT, DISC_WITHDRAW} /\ Len(i.accounts) = 9 ->
            {i.accounts[k] : k \in 3 .. 7}
      [] OTHER -> {}

ConsumedMints(i) ==
    IF i.kind \in {DISC_DEPOSIT, DISC_WITHDRAW} /\ Len(i.accounts) = 9
    THEN {i.accounts[2]} ELSE {}

\* some consumed account has not the canonical length or is not owned by the
\* token program
BadShape(i) ==
    \/ \E a \in ConsumedTokenAccounts(i) :
          DataLen(Ledger, a) # TOKEN_ACCOUNT_LEN \/ Owner(Ledger, a) # TOKEN_PROGRAM_ID
    \/ \E a \in ConsumedMints(i) :
          DataLen(Ledger, a) # MINT_LEN \/ Owner(Ledger, a) # TOKEN_PROGRAM_ID

\* C14: Deposit, Withdraw and Swap given a vault, a user token account or an
\* LP mint that has not the canonical record length or is not owned by the
\* token program fail without invoking any transfer, mint or burn.
C14_TokenShapesChecked ==
    [][ (ix = NoIx /\ ix'.kind \in {DISC_DEPOSIT, DISC_WITHDRAW, DISC_SWAP}
         /\ BadShape(ix'))
        => /\ result' # "Ok"
           /\ log' = <<>> ]_vars

\* the ledger with the pool's stored state replaced by st
WithState(st) == [Ledger EXCEPT !.config[CFG].state = st]

\* C15: a Withdraw has the same outcome (result, calls, balances, supply)
\* whatever the pool's stored state is (Uninitialized, Initialized or
\* Disabled); Deposit and Swap on a pool whose state is not Initialized fail
\* without invoking any call.
C15_WithdrawIgnoresState ==
    [][ /\ Submitted(DISC_WITHDRAW)
           => \A st \in {Uninitialized, Initialized, Disabled} :
                 LET o == process_instruction(WithState(st), ix', clock)
                 IN  /\ result' = o.err
                     /\ log' = o.log
                     /\ o.err = "Ok" => (amount' = o.L.amount /\ mints' = o.L.mints)
        /\ (ix = NoIx /\ ix'.kind \in {DISC_DEPOSIT, DISC_SWAP} /\ NotInitialized(ix'))
           => (result' # "Ok" /\ log' = <<>>) ]_vars

\* a Withdraw paid out of a Disabled pool
C15_Witness ==
    /\ ix.kind = DISC_WITHDRAW
    /\ result = "Ok"
    /\ ix.accounts = PoolAccounts
    /\ config[CFG].state = Disabled
    /\ Len(log) >= 2

FeeValues == {0, 30, FEE_LIMIT - 1, FEE_LIMIT, FEE_LIMIT + 1, 65535}

SwapVaultIn(i) == IF i.f[1] = 1 THEN i.accounts[4] ELSE i.accounts[5]
SwapVaultOut(i) == IF i.f[1] = 1 THEN i.accounts[5] ELSE i.accounts[4]

WithdrawQuoted(i) ==
    /\ WithdrawAccountsTryFrom(Ledger, i) = "Ok"
    /\ WithdrawInstructionDataTryFrom(i, clock) = "Ok"
    /\ WithdrawQuote(Ledger, i).ok

\* C19: a Withdraw succeeds only if its quoted x >= min_x and y >= min_y; one
\* whose quoted x or y is below its floor fails with SlippageViolation and
\* invokes neither the Burn nor a transfer.
C19_WithdrawFloors ==
    [][ Submitted(DISC_WITHDRAW)
        => /\ (/\ WithdrawQuoted(ix')
               /\ \/ WithdrawQuote(Ledger, ix').x < ix'.f[2]
                  \/ WithdrawQuote(Ledger, ix').y < ix'.f[3])
              => (result' = SlippageViolation /\ log' = <<>>)
           /\ result' = "Ok"
              => /\ WithdrawQuoted(ix')
                 /\ WithdrawQuote(Ledger, ix').x >= ix'.f[2]
                 /\ WithdrawQuote(Ledger, ix').y >= ix'.f[3] ]_vars

\* a Withdraw whose quoted x was positive but below min_x was refused
C19_Witness ==
    /\ ix.kind = DISC_WITHDRAW
    /\ result = "InvalidArgument"
    /\ log = <<>>
    /\ WithdrawQuoted(ix)
    /\ WithdrawQuote(Ledger, ix).x > 0
    /\ WithdrawQuote(Ledger, ix).x < ix.f[2]
    /\ WithdrawQuote(Ledger, ix).y >= ix.f[3]

\* the quote of a Withdraw of a LP tokens on the current ledger
QuoteOf(a) == WithdrawQuote(Ledger, QuoteWithdrawInput(a))

\* C20: on any reserves and LP supply, the withdraw quote exists for every
\* amount from 1 to the supply and both its amounts are non-decreasing in
\* the amount, the quote of the whole supply (the full reserves) included.
C20_QuoteMonotone ==
    \A a1 \in 1 .. mints[MINT_LP].supply :
        \A a2 \in a1 .. mints[MINT_LP].supply :
            /\ QuoteOf(a1).ok
            /\ QuoteOf(a2).ok
            /\ QuoteOf(a1).x <= QuoteOf(a2).x
            /\ QuoteOf(a1).y <= QuoteOf(a2).y
            /\ QuoteOf(a2).x <= amount[VAULT_X]
            /\ a2 = mints[MINT_LP].supply
               => (QuoteOf(a2).x = amount[VAULT_X] /\ QuoteOf(a2).y = amount[VAULT_Y])

\* after a Withdraw, a supply of at least 3 remains on which the quote grows
\* strictly from 1 to 2 and from 2 to the whole supply
C20_Witness ==
    /\ ix.kind = DISC_WITHDRAW
    /\ result = "Ok"
    /\ mints[MINT_LP].supply >= 3
    /\ QuoteOf(1).x < QuoteOf(2).x
    /\ QuoteOf(2).x < QuoteOf(mints[MINT_LP].supply).x

ExpiredError == "Custom0"
MalformedInput == "InvalidInstructionData"

\* the account checks of the instruction i pass on the current ledger
AccountsOk(i) ==
    CASE i.kind = DISC_INITIALIZE -> InitializeAccountsTryFrom(Ledger, i) = "Ok"
      [] i.kind = DISC_DEPOSIT -> DepositAccountsTryFrom(Ledger, i) = "Ok"
      [] i.kind = DISC_WITHDRAW -> WithdrawAccountsTryFrom(Ledger, i) = "Ok"
      [] i.kind = DISC_SWAP -> SwapAccountsTryFrom(Ledger, i) = "Ok"
      [] OTHER -> FALSE

\* the payload length of i is one its instruction supports
SupportedLen(i) ==
    CASE i.kind = DISC_INITIALIZE -> i.len \in {76, 108}
      [] i.kind \in {DISC_DEPOSIT, DISC_WITHDRAW} -> i.len = 32
      [] i.kind = DISC_SWAP -> i.len = 25
      [] OTHER -> FALSE

\* every check of i that comes before its expiration check passes
ReachesExpiry(i) ==
    /\ AccountsOk(i)
    /\ SupportedLen(i)
    /\ i.kind \in {DISC_DEPOSIT, DISC_WITHDRAW} => i.f[1] # 0

\* C21: a Deposit, Withdraw or Swap fails with Expired only if its expiration
\* T is nonzero and the clock is strictly greater than T, and, once the
\* checks before the expiration check pass, exactly then: a clock equal to T
\* is accepted and expiration 0 never expires.
C21_Expiration ==
    [][ (ix = NoIx /\ ix'.kind \in {DISC_DEPOSIT, DISC_WITHDRAW, DISC_SWAP})
        => /\ result' = ExpiredError => (ix'.f[4] # 0 /\ clock > ix'.f[4])
           /\ ReachesExpiry(ix')
              => (result' = ExpiredError <=> (ix'.f[4] # 0 /\ clock > ix'.f[4])) ]_vars

\* a Withdraw submitted one tick after its expiration was refused
C21_Witness ==
    /\ ix.kind = DISC_WITHDRAW
    /\ ix.f[4] # 0
    /\ clock = ix.f[4] + 1
    /\ result = ExpiredError
    /\ log = <<>>

\* C22: an instruction whose payload length is not one its layout supports
\* (32 for Deposit and Withdraw, 25 for Swap, 76 or 108 for Initialize) fails
\* without any external call, with MalformedInput once its account checks
\* pass, whatever its fields are; a supported length never gives
\* MalformedInput.
C22_PayloadLength ==
    [][ (ix = NoIx /\ ix'.kind \in {DISC_INITIALIZE, DISC_DEPOSIT, DISC_WITHDRAW, DISC_SWAP})
        => /\ ~SupportedLen(ix')
              => /\ result' # "Ok"
                 /\ log' = <<>>
                 /\ AccountsOk(ix') => result' = MalformedInput
           /\ SupportedLen(ix') => result' # MalformedInput ]_vars

\* a Withdraw one byte too long, with valid accounts and fields, was refused
C22_Witness ==
    /\ ix.kind = DISC_WITHDRAW
    /\ ix.len = WITHDRAW_DATA_LEN + 1
    /\ ix.f[1] # 0
    /\ AccountsOk(ix)
    /\ result = MalformedInput
    /\ log = <<>>

\* the decode result of a Deposit or Withdraw i with its second and third
\* field replaced
WithFloors(i, m2, m3) == [i EXCEPT !.f = <<i.f[1], m2, m3, i.f[4]>>]

\* C23: a Deposit or Withdraw whose amount is 0, a Swap whose amount or min
\* is 0 and an Initialize whose mints are equal fail without any external
\* call, with InvalidArgument once the checks before pass; the decoding of a
\* Deposit does not depend on max_x, max_y, that of a Withdraw not on min_x,
\* min_y.
C23_ZeroFieldsRejected ==
    [][ (ix = NoIx /\ ix'.kind \in {DISC_INITIALIZE, DISC_DEPOSIT, DISC_WITHDRAW, DISC_SWAP})
        => LET i == ix'
               zero == CASE i.kind = DISC_INITIALIZE -> i.f[3] = i.f[4]
                         [] i.kind = DISC_SWAP -> i.f[2] = 0 \/ i.f[3] = 0
                         [] OTHER -> i.f[1] = 0
               before == /\ AccountsOk(i)
                         /\ SupportedLen(i)
                         /\ i.kind = DISC_SWAP => ~(i.f[4] # 0 /\ clock > i.f[4])
           IN  /\ zero => (result' # "Ok" /\ log' = <<>>)
               /\ (zero /\ before) => result' = "InvalidArgument"
               /\ i.kind = DISC_DEPOSIT
                  => \A m2 \in {0, 1}, m3 \in {0, 1} :
                        DepositInstructionDataTryFrom(WithFloors(i, m2, m3), clock)
                            = DepositInstructionDataTryFrom(i, clock)
               /\ i.kind = DISC_WITHDRAW
                  => \A m2 \in {0, 1}, m3 \in {0, 1} :
                        WithdrawInstructionDataTryFrom(WithFloors(i, m2, m3), clock)
                            = WithdrawInstructionDataTryFrom(i, clock) ]_vars

\* a Swap of a nonzero amount with min = 0 was refused
C23_Witness ==
    /\ ix.kind = DISC_SWAP
    /\ ix.f[2] # 0
    /\ ix.f[3] = 0
    /\ AccountsOk(ix)
    /\ SupportedLen(ix)
    /\ result = "InvalidArgument"
    /\ log = <<>>

\* the long payload with the fields of i and an all-zero authority
LongZeroAuthority(i) ==
    [i EXCEPT !.len = INITIALIZE_DATA_LEN_WITH_AUTHORITY,
              !.f = SubSeq(i.f, 1, 6) \o <<ZERO_ADDRESS>>]

\* C24: the short Initialize payload decodes to the same seed, fee, mints and
\* bumps as the long payload with the same prefix and an all-zero authority;
\* a PoolConfig initialized from the short payload reports no authority, and
\* one initialized from a long payload with a nonzero authority reports
\* exactly that authority.
C24_OptionalAuthority ==
    [][ Submitted(DISC_INITIALIZE)
        => LET i == ix'
               c == config'[i.accounts[3]]
           IN  /\ i.len = INITIALIZE_DATA_LEN
                  => /\ InitializeInstructionDataTryFrom(i)
                          = InitializeInstructionDataTryFrom(LongZeroAuthority(i))
                     /\ InitializeInstructionDataTryFrom(i).err = "Ok"
                     /\ result' = "Ok" => has_authority(c) = <<>>
               /\ (i.len = INITIALIZE_DATA_LEN_WITH_AUTHORITY /\ result' = "Ok")
                  => has_authority(c) = IF i.f[7] = ZERO_ADDRESS THEN <<>> ELSE <<i.f[7]>> ]_vars

\* a pool was initialized from the short payload and reports no authority
C24_Witness ==
    /\ ix.kind = DISC_INITIALIZE
    /\ ix.len = INITIALIZE_DATA_LEN
    /\ result = "Ok"
    /\ config[CFG].state = Initialized
    /\ has_authority(config[CFG]) = <<>>

\* a pool was initialized from the long payload and reports its authority
C24_WitnessLong ==
    /\ ix.kind = DISC_INITIALIZE
    /\ ix.len = INITIALIZE_DATA_LEN_WITH_AUTHORITY
    /\ result = "Ok"
    /\ has_authority(config[CFG]) = <<AUTHORITY>>

\* the number of accounts an instruction requires
Arity(kind) ==
    CASE kind = DISC_INITIALIZE -> 5
      [] kind \in {DISC_DEPOSIT, DISC_WITHDRAW} -> 9
      [] kind = DISC_SWAP -> 7

\* C25: an instruction whose account list has fewer or more accounts than
\* its arity (Initialize 5, Deposit and Withdraw 9, Swap 7) fails with
\* NotEnoughAccountKeys and no external call, whatever the signer flag, the
\* accounts, the payload and the pool are; a list of the right arity never
\* gives that error.
C25_ArityFirst ==
    [][ (ix = NoIx /\ ix'.kind \in {DISC_INITIALIZE, DISC_DEPOSIT, DISC_WITHDRAW, DISC_SWAP})
        => /\ Len(ix'.accounts) # Arity(ix'.kind)
              => (result' = "NotEnoughAccountKeys" /\ log' = <<>>)
           /\ Len(ix'.accounts) = Arity(ix'.kind)
              => result' # "NotEnoughAccountKeys" ]_vars

\* an unsigned Swap with eight accounts and a payload one byte short was
\* refused for its arity
C25_Witness ==
    /\ ix.kind = DISC_SWAP
    /\ Len(ix.accounts) = 8
    /\ ~ix.signer
    /\ ix.len # SWAP_DATA_LEN
    /\ result = "NotEnoughAccountKeys"
    /\ log = <<>>

\* C26: an instruction whose acting user does not carry the signer flag
\* fails without any create-account, transfer, mint or burn call, with
\* MissingRequiredSignature once its arity is right.
C26_SignerRequired ==
    [][ (ix = NoIx /\ ix'.kind \in {DISC_INITIALIZE, DISC_DEPOSIT, DISC_WITHDRAW, DISC_SWAP}
                   /\ ~ix'.signer)
        => /\ result' # "Ok"
           /\ log' = <<>>
           /\ Len(ix'.accounts) = Arity(ix'.kind) => result' = "MissingRequiredSignature" ]_vars

\* an unsigned Deposit with otherwise valid accounts and payload was refused
C26_Witness ==
    /\ ix.kind = DISC_DEPOSIT
    /\ ~ix.signer
    /\ ix.accounts = PoolAccounts
    /\ ix.len = DEPOSIT_DATA_LEN
    /\ ix.f[1] # 0
    /\ result = "MissingRequiredSignature"
    /\ log = <<>>

\* the account an instruction names as the token program
TokenProgramOf(i) == i.accounts[Arity(i.kind)]

\* C27: a Deposit, Withdraw or Swap whose config account has not the length
\* of a PoolConfig or is not owned by this program fails (InvalidAccountData
\* for the length, InvalidAccountOwner for the owner, once arity and signer
\* pass), and any instruction whose token-program account is not the token
\* program fails (InvalidArgument once the checks before pass); in each case
\* without any external call.
C27_ConfigAndTokenProgram ==
    [][ (ix = NoIx /\ ix'.kind \in {DISC_INITIALIZE, DISC_DEPOSIT, DISC_WITHDRAW, DISC_SWAP}
                   /\ Len(ix'.accounts) = Arity(ix'.kind))
        => LET i == ix'
               pool == i.kind # DISC_INITIALIZE
               cfg == ConfigOf(i)
               badLen == pool /\ DataLen(Ledger, cfg) # CONFIG_LEN
               badOwner == pool /\ Owner(Ledger, cfg) # PROGRAM_ID
               badToken == TokenProgramOf(i) # TOKEN_PROGRAM_ID
           IN  /\ (badLen \/ badOwner \/ badToken) => (result' # "Ok" /\ log' = <<>>)
               /\ (i.signer /\ badLen) => result' = "InvalidAccountData"
               /\ (i.signer /\ ~badLen /\ badOwner) => result' = "InvalidAccountOwner"
               /\ (i.signer /\ ~badLen /\ ~badOwner /\ badToken) => result' = "InvalidArgument" ]_vars

\* a Swap naming a config account of the right length that another program
\* owns was refused
C27_Witness ==
    /\ ix.kind = DISC_SWAP
    /\ ix.signer
    /\ ix.accounts[6] = FOREIGN
    /\ result = "InvalidAccountOwner"
    /\ log = <<>>

\* a Deposit naming the system program as its token program was refused
C27_WitnessToken ==
    /\ ix.kind = DISC_DEPOSIT
    /\ ix.signer
    /\ Len(ix.accounts) = 9
    /\ ix.accounts[8] = CFG
    /\ ix.accounts[9] = SYSTEM_PROGRAM_ID
    /\ result = "InvalidArgument"
    /\ ix.f[1] # 0
    /\ log = <<>>

\* the errors an instruction receives from a program it invoked
LedgerErrors == {"LedgerError"}

\* C28: a Deposit, Withdraw or Swap that failed with an error of its own
\* (arity, signer, account shape, vault address, payload length, zero
\* amount, expiration, state gate, quote failure, slippage) has invoked no
\* transfer, mint or burn.
C28_ChecksPrecedeEffects ==
    (/\ ix # NoIx
     /\ ix.kind \in {DISC_DEPOSIT, DISC_WITHDRAW, DISC_SWAP}
     /\ result \notin ({"Ok"} \cup LedgerErrors))
        => log = <<>>

\* a Withdraw that passed its account and payload checks was refused for
\* slippage before its Burn
C28_Witness ==
    /\ ix # NoIx
    /\ ix.kind = DISC_WITHDRAW
    /\ WithdrawAccountsTryFrom(Ledger, ix) = "Ok"
    /\ ix.len = WITHDRAW_DATA_LEN
    /\ ix.f[1] # 0
    /\ ix.f[1] <= mints[MINT_LP].supply
    /\ result = SlippageViolation
    /\ log = <<>>

\* C29: Deposit, Withdraw and Swap leave every config record as it was,
\* whether they succeed or fail; a record whose state is Initialized is
\* changed by no instruction, so its state stays Initialized (never Disabled)
\* and its fee and mints stay fixed.
C29_ConfigUnchanged ==
    [][ /\ (ix = NoIx /\ ix'.kind \in {DISC_DEPOSIT, DISC_WITHDRAW, DISC_SWAP})
           => config' = config
        /\ \A a \in CfgAddrs :
              config[a].state = Initialized => config'[a] = config[a]
        /\ \A a \in CfgAddrs : config'[a].state # Disabled ]_vars

\* a Swap went through on a pool whose record is the one Initialize wrote
C29_Witness ==
    /\ ix # NoIx
    /\ ix.kind = DISC_SWAP
    /\ result = "Ok"
    /\ Len(log) = 2
    /\ config[CFG].state = Initialized
    /\ config[CFG].mint_x = MINT_X
    /\ config[CFG].mint_y = MINT_Y
    /\ config[CFG].fee = 30

\* C30: a Deposit with amount > 0 and max_x = max_y = 0 on an Initialized
\* pool (the pool's own accounts, signed, not expired) succeeds: its only
\* call is the MintTo of amount LP tokens, the LP supply grows by amount and
\* both vault balances are unchanged.
C30_DepositForNothing ==
    [][ (/\ Submitted(DISC_DEPOSIT)
         /\ ix'.accounts = PoolAccounts
         /\ ix'.signer
         /\ ix'.len = DEPOSIT_DATA_LEN
         /\ ~(ix'.f[4] # 0 /\ clock > ix'.f[4])
         /\ config[CFG].len = CONFIG_LEN
         /\ config[CFG].state = Initialized
         /\ ix'.f[1] > 0 /\ ix'.f[2] = 0 /\ ix'.f[3] = 0)
        => /\ result' = "Ok"
           /\ Len(log') = 1
           /\ log'[1].op = "MintTo"
           /\ log'[1].mint = MINT_LP
           /\ log'[1].account = USER_LP
           /\ log'[1].amount = ix'.f[1]
           /\ mints'[MINT_LP].supply = mints[MINT_LP].supply + ix'.f[1]
           /\ amount'[USER_LP] = amount[USER_LP] + ix'.f[1]
           /\ amount'[VAULT_X] = amount[VAULT_X]
           /\ amount'[VAULT_Y] = amount[VAULT_Y] ]_vars

\* LP tokens were minted into a pool whose reserves are both empty
C30_Witness ==
    /\ ix # NoIx
    /\ ix.kind = DISC_DEPOSIT
    /\ ix.f[2] = 0 /\ ix.f[3] = 0
    /\ result = "Ok"
    /\ mints[MINT_LP].supply = MaxSupply
    /\ amount[VAULT_X] = 0
    /\ amount[VAULT_Y] = 0

\* the record set_inner leaves behind when it is called on c with the decoded
\* payload d and stops at set_fee: state, seed, authority and mints written,
\* fee and config_bump as they were
PartialRecord(c, d) ==
    [c EXCEPT !.state = Initialized, !.seed = d.seed, !.authority = d.authority,
              !.mint_x = d.mint_x, !.mint_y = d.mint_y]

\* C31: set_inner called with fee >= 10000 returns an error with fee and
\* config_bump unchanged but state already Initialized and seed, authority,
\* mint_x, mint_y already overwritten; an Initialize that reaches it with
\* such a fee ends, after its CreateAccount, holding that partial record in
\* the config account, and only the rollback of the failed transaction
\* keeps the stored config as it was.
C31_SetInnerPartial ==
    [][ (/\ Submitted(DISC_INITIALIZE)
         /\ ix'.accounts = InitializeAccounts
         /\ ix'.f[1] = SEED0
         /\ InitializeTryFrom(Ledger, ix') = "Ok"
         /\ config[CFG] = NoAccount
         /\ ix'.f[2] >= FEE_LIMIT)
        => LET d == InitializeFields(ix')
               w == set_inner(ZeroedConfig, d.seed, d.authority, d.mint_x, d.mint_y,
                              d.fee, d.config_bump)
               o == Initialize(Ledger, ix')
           IN  /\ w.err = "InvalidAccountData"
               /\ w.c = PartialRecord(ZeroedConfig, d)
               /\ w.c.fee = ZeroedConfig.fee
               /\ w.c.config_bump = ZeroedConfig.config_bump
               /\ w.c.state = Initialized
               /\ w.c.state # ZeroedConfig.state
               /\ w.c.mint_x # ZeroedConfig.mint_x
               /\ o.err = "InvalidAccountData"
               /\ o.L.config[CFG] = w.c
               /\ result' = "InvalidAccountData"
               /\ Len(log') = 1
               /\ log'[1].op = "CreateAccount"
               /\ config' = config ]_vars

\* an Initialize with fee = 10000 failed after creating the config account;
\* the record it was holding is Initialized, the stored one does not exist
C31_Witness ==
    /\ ix # NoIx
    /\ ix.kind = DISC_INITIALIZE
    /\ ix.accounts = InitializeAccounts
    /\ ix.f[2] = FEE_LIMIT
    /\ result = "InvalidAccountData"
    /\ Len(log) = 1
    /\ config[CFG] = NoAccount
    /\ Initialize(Ledger, ix).L.config[CFG].state = Initialized
    /\ Initialize(Ledger, ix).L.config[CFG].config_bump = 0

\* the quotes on every pair of positive reserves up to QuoteMaxReserve, for
\* every amount of the inputs and the fees 0 and 30
QuotesBelowReserve ==
    \A rin \in 1..QuoteMaxReserve, rout \in 1..QuoteMaxReserve, a \in 1..MaxAmount,
       fee \in {0, 30}, p \in {"X", "Y"} :
        LET curve == ConstantProduct_init(IF p = "X" THEN rin ELSE rout,
                                          IF p = "X" THEN rout ELSE rin, rin, fee)
            q == ConstantProduct_swap(curve, p, a, 0)
        IN  curve.ok /\ (q.ok => q.withdraw < rout)

\* C32: a successful Swap is quoted on two strictly positive balances and
\* pays out strictly less than the balance of the vault it pays from, so
\* the two accounts it names as vaults, and the pool's two vaults, stay
\* strictly positive if they were.
C32_SwapNeverEmpties ==
    [][ (Submitted(DISC_SWAP) /\ result' = "Ok")
        => /\ QuotesBelowReserve
           /\ amount[SwapVaultIn(ix')] > 0
           /\ amount[SwapVaultOut(ix')] > 0
           /\ Len(log') = 2
           /\ log'[2].from = SwapVaultOut(ix')
           /\ log'[2].amount < amount[SwapVaultOut(ix')]
           /\ amount'[SwapVaultIn(ix')] > 0
           /\ amount'[SwapVaultOut(ix')] > 0
           /\ \A v \in {VAULT_X, VAULT_Y} : amount[v] > 0 => amount'[v] > 0 ]_vars

\* a Swap on the pool's vaults went through and left a single token in the
\* vault it paid from
C32_Witness ==
    /\ ix # NoIx
    /\ ix.kind = DISC_SWAP
    /\ ix.accounts = SwapAccounts
    /\ result = "Ok"
    /\ Len(log) = 2
    /\ log[2].amount > 0
    /\ amount[SwapVaultOut(ix)] = 1
    /\ amount[SwapVaultIn(ix)] > 1

\* the transfers among the calls lg
TransfersOf(lg) == { k \in 1..Len(lg) : lg[k].op = "Transfer" }

\* C33: every transfer a Withdraw invokes is out of one of the two vaults it
\* names, for an amount that is at most that vault's balance as the
\* instruction read it: x <= vault_x and y <= vault_y for the quoted x, y; a
\* successful Withdraw burns 0 < amount <= LP supply and leaves each vault
\* its balance less the payout, and no instruction makes a balance negative.
C33_WithdrawWithinVault ==
    [][ /\ Submitted(DISC_WITHDRAW)
           => /\ \A k \in TransfersOf(log') :
                    /\ log'[k].from \in {ix'.accounts[3], ix'.accounts[4]}
                    /\ log'[k].amount <= amount[log'[k].from]
              /\ (WithdrawAccountsTryFrom(Ledger, ix') = "Ok" /\ WithdrawQuote(Ledger, ix').ok)
                 => /\ WithdrawQuote(Ledger, ix').x <= amount[ix'.accounts[3]]
                    /\ WithdrawQuote(Ledger, ix').y <= amount[ix'.accounts[4]]
              /\ result' = "Ok"
                 => LET q == WithdrawQuote(Ledger, ix')
                        vault_x == ix'.accounts[3]
                        vault_y == ix'.accounts[4]
                    IN  /\ 0 < ix'.f[1]
                        /\ ix'.f[1] <= mints[ix'.accounts[2]].supply
                        /\ vault_x # vault_y
                           => /\ amount'[vault_x] = amount[vault_x] - q.x
                              /\ amount'[vault_y] = amount[vault_y] - q.y
        /\ \A a \in TokAddrs : amount'[a] >= 0 ]_vars

\* a Withdraw of part of the LP supply went through and paid out the whole
\* balance of vault_x
C33_Witness ==
    /\ ix # NoIx
    /\ ix.kind = DISC_WITHDRAW
    /\ ix.accounts = PoolAccounts
    /\ result = "Ok"
    /\ Len(log) = 3
    /\ log[2].op = "Transfer"
    /\ log[2].from = VAULT_X
    /\ log[2].amount > 0
    /\ amount[VAULT_X] = 0
    /\ mints[MINT_LP].supply > 0

====
